---- MODULE Spec2Model ----
(***************************************************************************)
(* Model of the Nexudus -> bronze -> silver synchronisation engine:        *)
(*   shared/nexudus/client.py            NexudusClient (get, paginate, ...) *)
(*   shared/azure_clients/run_tracker.py RunTracker                         *)
(*   shared/azure_clients/bronze_writer.py BronzeWriter                     *)
(*   functions/bronze_nexudus.py         nexudus_to_bronze orchestrator     *)
(*   shared/azure_clients/silver_*.py    per-entity silver writers          *)
(*   shared/nexudus/transformers/*.py    entity transformers                *)
(*   functions/silver_nexudus.py         bronze_to_silver orchestrator      *)
(***************************************************************************)
EXTENDS Integers, Sequences, FiniteSets, TLC

(***************************************************************************)
(* Bounds of the model.                                                    *)
(***************************************************************************)
MaxPages == 3

(***************************************************************************)
(* Values.                                                                 *)
(***************************************************************************)
\* Python None / SQL NULL for integer-valued fields (real ids are >= 0).
NoneVal == -1
\* SQL NULL for the text column error_message.
NullMsg == "<NULL>"

Max2(a, b) == IF a >= b THEN a ELSE b
Min2(a, b) == IF a <= b THEN a ELSE b

RECURSIVE Pow2(_)
Pow2(n) == IF n <= 0 THEN 1 ELSE 2 * Pow2(n - 1)

\* An orchestrator that pulls the resources before the products.
EntitiesResourcesFirst ==
    <<"locations", "resources", "products", "contracts", "extra_services">>

\* The five entities, in the order the bronze orchestrator pulls them.
Entities == <<"locations", "products", "contracts", "resources", "extra_services">>
EntityNames == {Entities[k] : k \in 1..Len(Entities)}

\* A raw upstream record (payload).  Id is the natural id ("Id"), Loc the
\* parent location id (FloorPlanBusinessId / BusinessId), Res the ResourceId,
\* ver stands for the rest of the payload, bad marks a field the entity's
\* transformer cannot process.
Rec(id, loc, res, ver, bad) ==
    [Id |-> id, Loc |-> loc, Res |-> res, ver |-> ver, bad |-> bad]

\* get_one body that is an empty JSON object.
EmptyRec == Rec(NoneVal, NoneVal, NoneVal, 0, FALSE)

(***************************************************************************)
(* Exceptions.                                                             *)
(***************************************************************************)
Exc(type, status) == [type |-> type, status |-> status]
NoExc == Exc("none", 0)

\* str(exc_val): asyncio.TimeoutError() has an empty message.
StrOf(e) == IF e.type = "TimeoutError" THEN "" ELSE e.type

(***************************************************************************)
(* shared/nexudus/client.py                                                *)
(***************************************************************************)
RetryableStatuses == {429, 500, 502, 503, 504}

\* _is_retryable
IsRetryable(exc) ==
    IF exc.type = "ClientResponseError" THEN exc.status \in RetryableStatuses
    ELSE IF exc.type \in {"ServerConnectionError", "TimeoutError"} THEN TRUE
    ELSE FALSE

\* stop_after_attempt(5)
StopAfterAttempt == 5

\* wait_exponential(multiplier=2, min=4, max=60), seconds slept after the
\* attempt with the given attempt_number.
WaitExponential(attempt) == Max2(Max2(0, 4), Min2(2 * Pow2(attempt - 1), 60))

\* Semaphore(max_concurrent)
MaxConcurrent == 3

\* resp.headers.get("Retry-After", 15)
DefaultRetryAfter == 15

\* resp.headers: the Retry-After header is absent, or present with a text: a
\* str, modelled as the sequence of the code points of its characters
\* (possibly empty).
HeaderAbsent == [present |-> FALSE, text |-> <<>>]
Header(text) == [present |-> TRUE, text |-> text]

\* ord(ch) of the ASCII characters the header texts below are written with.
Ord(ch) ==
    CASE ch = "0" -> 48 [] ch = "1" -> 49 [] ch = "2" -> 50 [] ch = "3" -> 51
      [] ch = "4" -> 52 [] ch = "5" -> 53 [] ch = "6" -> 54 [] ch = "7" -> 55
      [] ch = "8" -> 56 [] ch = "9" -> 57 [] ch = "+" -> 43 [] ch = "-" -> 45
      [] ch = "_" -> 95 [] ch = " " -> 32 [] ch = "W" -> 87 [] ch = "e" -> 101
      [] ch = "d" -> 100

\* int(str) of Python: every character of the Unicode category Nd is a
\* decimal digit. The code points of the digit zero of each run of ten
\* (Unicode 14.0), DIGIT ZERO first.
DecimalZeros ==
    {48, 1632, 1776, 1984, 2406, 2534, 2662, 2790, 2918, 3046, 3174, 3302, 3430,
     3558, 3664, 3792, 3872, 4160, 4240, 6112, 6160, 6470, 6608, 6784, 6800,
     6992, 7088, 7232, 7248, 42528, 43216, 43264, 43472, 43504, 43600, 44016,
     65296, 66720, 68912, 69734, 69872, 69942, 70096, 70384, 70736, 70864,
     71248, 71360, 71472, 71904, 72016, 72784, 73040, 73120, 92768, 92864,
     93008, 120782, 120792, 120802, 120812, 120822, 123200, 123632, 125264,
     130032}

\* The decimal value of the character with code point c, NoneVal when it is
\* not a decimal digit.
DigitVal(c) ==
    IF \E z \in DecimalZeros : c >= z /\ c <= z + 9
    THEN c - (CHOOSE z \in DecimalZeros : c >= z /\ c <= z + 9)
    ELSE NoneVal

\* The characters int(str) strips from both ends: the ASCII whitespace
\* \t \n \v \f \r and the space, and the whitespace beyond ASCII (U+0085,
\* U+00A0, U+1680, U+2000..U+200A, U+2028, U+2029, U+202F, U+205F, U+3000).
\* U+001C..U+001F are not stripped.
Whitespace ==
    (9..13) \cup {32, 133, 160, 5760} \cup (8192..8202)
        \cup {8232, 8233, 8239, 8287, 12288}

RECURSIVE LStrip(_)
LStrip(s) == IF s # <<>> /\ Head(s) \in Whitespace THEN LStrip(Tail(s)) ELSE s

RECURSIVE RStrip(_)
RStrip(s) ==
    IF s # <<>> /\ s[Len(s)] \in Whitespace THEN RStrip(SubSeq(s, 1, Len(s) - 1)) ELSE s

\* The digits a literal may consist of: a digit first and last, digits and
\* underscores between, no two underscores in a row.
IsDigits(s) ==
    /\ s # <<>>
    /\ DigitVal(s[1]) # NoneVal /\ DigitVal(s[Len(s)]) # NoneVal
    /\ \A k \in 1..Len(s) : s[k] = Ord("_") \/ DigitVal(s[k]) # NoneVal
    /\ \A k \in 1..(Len(s) - 1) : ~(s[k] = Ord("_") /\ s[k + 1] = Ord("_"))

\* The digits of the literal s in order, the underscores dropped.
Digits(s) == SelectSeq(s, LAMBDA c : c # Ord("_"))

\* The digits of the literal s from its first digit that is not a zero.
Significant(s) ==
    LET d  == Digits(s)
        nz == {k \in 1..Len(d) : DigitVal(d[k]) # 0}
    IN IF nz = {} THEN <<>>
       ELSE SubSeq(d, CHOOSE k \in nz : \A j \in nz : k <= j, Len(d))

\* The value of the decimal digits s after acc; NoneVal when one of them is
\* not a digit (the value of a literal is never negative).
RECURSIVE ParseDigits(_, _)
ParseDigits(s, acc) ==
    IF s = <<>> THEN acc
    ELSE IF DigitVal(Head(s)) = NoneVal THEN NoneVal
    ELSE ParseDigits(Tail(s), 10 * acc + DigitVal(Head(s)))

\* int(str) raises ValueError on a literal of more digits than the limit of
\* the interpreter (sys.get_int_max_str_digits(), 4300 unless configured);
\* leading zeros count, underscores do not.
MaxStrDigits == 4300

\* int(text): surrounding whitespace is stripped, one ASCII sign may lead,
\* and the digits may be grouped by single underscores; ok is FALSE where
\* int raises ValueError.  The value is an integer of the model: texts
\* whose value lies beyond those (2^31 and above) are not among the inputs.
PyInt(text) ==
    LET s      == RStrip(LStrip(text))
        signed == s # <<>> /\ Head(s) \in {Ord("+"), Ord("-")}
        body   == IF signed THEN Tail(s) ELSE s
        n      == IF ~IsDigits(body) \/ Len(Digits(body)) > MaxStrDigits
                  THEN NoneVal
                  ELSE ParseDigits(Significant(body), 0)
    IN [ok  |-> n # NoneVal,
        val |-> IF n = NoneVal THEN 0
                ELSE IF signed /\ Head(s) = Ord("-") THEN 0 - n ELSE n]

\* The headers a 429 is answered with: none, "2", "Wed", "-1", the empty
\* text, U+0662 (ARABIC-INDIC DIGIT TWO) and U+00A0 (NO-BREAK SPACE) before
\* "2".  "Wed" stands for every text int() refuses, a literal of more than
\* MaxStrDigits digits included.
RetryAfterHeaders ==
    {HeaderAbsent, Header(<<Ord("2")>>), Header(<<Ord("W"), Ord("e"), Ord("d")>>),
     Header(<<Ord("-"), Ord("1")>>), Header(<<>>), Header(<<1634>>),
     Header(<<160, Ord("2")>>)}

\* int(resp.headers.get("Retry-After", 15)): the default is the integer 15
\* when the header is absent; a present header is parsed, the empty text too.
RetryAfterSeconds(h) ==
    IF ~h.present THEN [ok |-> TRUE, val |-> DefaultRetryAfter] ELSE PyInt(h.text)

\* asyncio.sleep(delay) returns at once for delay <= 0.
SleepSeconds(delay) == IF delay <= 0 THEN 0 ELSE delay

\* The Retry-After seconds an attempt waited for: none, or <<d>>.
NoRetryAfter == <<>>


(***************************************************************************)
(* The upstream API, as the client sees it.                                *)
(***************************************************************************)
\* A JSON response body.  isDict: the body is an object {Records, HasNextPage}
\* (list endpoints) or the record itself (single-record endpoints, in rec);
\* otherwise it is a bare JSON list (in Records).
Body(isDict, recs, more, rec) ==
    [isDict |-> isDict, Records |-> recs, HasNextPage |-> more, rec |-> rec]
NoBody == Body(TRUE, <<>>, FALSE, EmptyRec)

\* What one HTTP attempt meets: an HTTP response (kind "http") or an exception
\* raised by session.get (kind = the exception type).
Resp(kind, status, header, body) ==
    [kind |-> kind, status |-> status, header |-> header, body |-> body]

NetworkErrors == {"ServerConnectionError", "TimeoutError", "ClientConnectorError"}
ErrorStatuses == {400, 404, 429, 500, 502, 503, 504}

\* The records the upstream holds on page p of a list endpoint at the time of
\* invocation v (ver = v: the payload changes from one invocation to the next).
UpstreamPage(e, p, v) ==
    IF e = "products"
    THEN CASE p = 1 -> <<Rec(1, 10, 100, v, FALSE), Rec(2, 10, 100, v, FALSE)>>
           [] p = 2 -> <<Rec(3, 20, 100, v, FALSE)>>
           [] OTHER -> <<Rec(3 + p, 20, NoneVal, v, FALSE)>>
    ELSE <<Rec(p, 10, NoneVal, v, FALSE)>>

\* The record the upstream holds for spaces/resources/{rid}.
UpstreamResource(rid, v) == Rec(rid, 10, NoneVal, v, FALSE)

FailureResponses ==
    {Resp(k, 0, HeaderAbsent, NoBody) : k \in NetworkErrors}
    \cup {Resp("http", s, HeaderAbsent, NoBody) : s \in ErrorStatuses \ {429}}
    \cup {Resp("http", 429, h, NoBody) : h \in RetryAfterHeaders}

ListResponses(e, p, v) ==
    {Resp("http", 200, HeaderAbsent, Body(TRUE, recs, more, EmptyRec)) :
        recs \in {<<>>, UpstreamPage(e, p, v)}, more \in BOOLEAN}
    \cup {Resp("http", 200, HeaderAbsent, Body(FALSE, UpstreamPage(e, p, v), FALSE, EmptyRec))}
    \cup FailureResponses

\* The pages the upstream holds for an entity, and what a whole sync meets on
\* page p: the page as held (HasNextPage while pages remain), an empty page,
\* or a failure.
NumPages(e) == IF e = "products" THEN 2 ELSE 1

SyncListResponses(e, p, v) ==
    {Resp("http", 200, HeaderAbsent, Body(TRUE, UpstreamPage(e, p, v), p < NumPages(e), EmptyRec)),
     Resp("http", 200, HeaderAbsent, Body(TRUE, <<>>, FALSE, EmptyRec))}
    \cup FailureResponses

OneResponses(rid, v) ==
    {Resp("http", 200, HeaderAbsent, Body(TRUE, <<>>, FALSE, r)) :
        r \in {UpstreamResource(rid, v), EmptyRec}}
    \cup FailureResponses

(***************************************************************************)
(* One call of NexudusClient.get under the tenacity retry decorator.       *)
(*   st      queued   : waiting for the semaphore                          *)
(*           inflight : request sent, semaphore slot held                  *)
(*           sleep429 : asyncio.sleep(wait) after a 429, slot still held   *)
(*           backoff  : tenacity sleeping before the next attempt          *)
(*           done     : get has returned (ok) or raised (exc)              *)
(*   attempt : tenacity attempt_number                                     *)
(*   t       : seconds this call has slept so far                          *)
(*   at      : t when the current attempt was issued                       *)
(*   prevAt  : t when the previous attempt was issued                      *)
(*   prevRA  : <<d>>, the Retry-After seconds d the previous attempt waited *)
(*             for, NoRetryAfter if it was not a 429                       *)
(*   last    : what the latest attempt met (kind and status)               *)
(***************************************************************************)
NewTask ==
    [st |-> "queued", attempt |-> 1, t |-> 0, at |-> NoneVal, prevAt |-> NoneVal,
     prevRA |-> NoRetryAfter, ra |-> NoRetryAfter, wait |-> 0,
     ok |-> FALSE, exc |-> NoExc, body |-> NoBody,
     last |-> [kind |-> "none", status |-> 0]]

\* get returns `await resp.json()`.
TaskReturn(task, body) ==
    [task EXCEPT !.st = "done", !.ok = TRUE, !.body = body]

\* A retry decorator without stop_after_attempt: at the ceiling the attempt
\* is made again instead of RetryError being raised.
TaskRaiseNeverStops(task, exc) ==
    IF IsRetryable(exc)
    THEN IF task.attempt >= StopAfterAttempt
         THEN [task EXCEPT !.st = "backoff", !.wait = 0, !.attempt = task.attempt - 1]
         ELSE [task EXCEPT !.st = "backoff", !.wait = WaitExponential(task.attempt)]
    ELSE [task EXCEPT !.st = "done", !.exc = exc]

\* The retry decorator after the attempt raised exc: retry (after the
\* exponential wait) while the exception is retryable and attempts remain,
\* RetryError once stop_after_attempt is reached, else the exception itself.
TaskRaise(task, exc) ==
    IF IsRetryable(exc)
    THEN IF task.attempt >= StopAfterAttempt
         THEN [task EXCEPT !.st = "done", !.exc = Exc("RetryError", exc.status)]
         ELSE [task EXCEPT !.st = "backoff", !.wait = WaitExponential(task.attempt)]
    ELSE [task EXCEPT !.st = "done", !.exc = exc]

\* The body of get once session.get has answered with r.  The result is the
\* task and whether the semaphore slot is released now.
TaskRespond(task0, r) ==
    LET task == [task0 EXCEPT !.last = [kind |-> r.kind, status |-> r.status]]
    IN
    IF r.kind # "http"
    THEN [task |-> TaskRaise([task EXCEPT !.ra = NoRetryAfter], Exc(r.kind, 0)), release |-> TRUE]
    ELSE IF r.status = 429
    THEN IF ~RetryAfterSeconds(r.header).ok
         THEN [task |-> TaskRaise([task EXCEPT !.ra = NoRetryAfter], Exc("ValueError", 0)),
               release |-> TRUE]
         ELSE [task |-> [task EXCEPT !.st = "sleep429",
                                     !.wait = RetryAfterSeconds(r.header).val],
               release |-> FALSE]
    ELSE IF r.status >= 400
    THEN [task |-> TaskRaise([task EXCEPT !.ra = NoRetryAfter],
                             Exc("ClientResponseError", r.status)),
          release |-> TRUE]
    ELSE [task |-> TaskReturn(task, r.body), release |-> TRUE]

\* A 429 branch that raises without sleeping for Retry-After.
TaskWake429NoSleep(task) ==
    TaskRaise([task EXCEPT !.ra = <<task.wait>>, !.wait = 0],
              Exc("ClientResponseError", 429))

\* asyncio.sleep(wait) is over: resp.raise_for_status() raises the 429.
TaskWake429(task) ==
    TaskRaise([task EXCEPT !.t = task.t + SleepSeconds(task.wait), !.ra = <<task.wait>>,
                           !.wait = 0],
              Exc("ClientResponseError", 429))

\* The tenacity wait is over: the next attempt starts.
TaskBackoffDone(task) ==
    [task EXCEPT !.st = "queued", !.t = task.t + task.wait, !.wait = 0,
                 !.attempt = task.attempt + 1]

\* The attempt enters `async with self._semaphore` and sends the request.
TaskIssue(task) ==
    [task EXCEPT !.st = "inflight", !.at = task.t, !.prevAt = task.at,
                 !.prevRA = task.ra, !.ra = NoRetryAfter]

\* A get_one that re-raises every exception of get, the 404 included.
GetOneReraisesAll(task) == FALSE

\* get_one: a 404 is "record absent" (None), any other exception propagates.
GetOneAbsent(task) ==
    task.st = "done" /\ ~task.ok
    /\ task.exc.type = "ClientResponseError" /\ task.exc.status = 404
GetOneRaised(task) == task.st = "done" /\ ~task.ok /\ ~GetOneAbsent(task)

(***************************************************************************)
(* shared/azure_clients/bronze_writer.py                                   *)
(***************************************************************************)
\* _to_json / json.loads: the stored text and its parse.
ToJson(r) == [json |-> r]
JsonLoads(j) == j.json

\* A bronze row: identity id, the columns of the MERGE and synced_at.
BronzeRow(id, sync_run_id, source_id, location_id, raw_json, synced_at) ==
    [id |-> id, sync_run_id |-> sync_run_id, source_id |-> source_id,
     location_id |-> location_id, raw_json |-> raw_json, synced_at |-> synced_at]

\* The tuples the write_* methods build: (sync_run_id, source_id, routing
\* key, raw_json).  Only products and extra services read the routing key
\* from the record; write_resources takes it as a parameter; locations have
\* none and write_contracts is called without one.
WriterRow(entity, sync_run_id, r, location_id) ==
    [sync_run_id |-> sync_run_id,
     source_id |-> r.Id,
     location_id |-> CASE entity \in {"products", "extra_services"} -> r.Loc
                       [] entity = "resources" -> location_id
                       [] OTHER -> NoneVal,
     raw_json |-> ToJson(r)]

\* SELECT TOP 1 t.id FROM table t WHERE t.source_id = source.source_id
\* ORDER BY t.synced_at DESC, t.id DESC   (0 when there is no such row; a
\* NULL source_id equals nothing).
MergeTarget(table, source_id) ==
    LET cand == {k \in 1..Len(table) :
                    source_id # NoneVal /\ table[k].source_id = source_id}
    IN IF cand = {} THEN 0
       ELSE CHOOSE k \in cand : \A j \in cand :
                \/ table[k].synced_at > table[j].synced_at
                \/ table[k].synced_at = table[j].synced_at /\ table[k].id >= table[j].id

\* A MERGE whose UPDATE SET list leaves the routing key out.
MergeRowKeepsRouting(table, row, now) ==
    LET k == MergeTarget(table, row.source_id)
    IN IF k # 0
       THEN [table EXCEPT ![k] = [@ EXCEPT !.sync_run_id = row.sync_run_id,
                                           !.raw_json = row.raw_json,
                                           !.synced_at = now]]
       ELSE Append(table, BronzeRow(Len(table) + 1, row.sync_run_id, row.source_id,
                                    row.location_id, row.raw_json, now))

\* One MERGE statement of _build_merge_sql, executed at time now.
MergeRow(table, row, now) ==
    LET k == MergeTarget(table, row.source_id)
    IN IF k # 0
       THEN [table EXCEPT ![k] = [@ EXCEPT !.sync_run_id = row.sync_run_id,
                                           !.location_id = row.location_id,
                                           !.raw_json = row.raw_json,
                                           !.synced_at = now]]
       ELSE Append(table, BronzeRow(Len(table) + 1, row.sync_run_id, row.source_id,
                                    row.location_id, row.raw_json, now))

\* _batch_upsert: one MERGE per row, in order; each statement reads the
\* store clock (GETUTCDATE) one tick later than the one before.
RECURSIVE BatchUpsert(_, _, _)
BatchUpsert(table, rows, now) ==
    IF rows = <<>> THEN table
    ELSE BatchUpsert(MergeRow(table, Head(rows), now + 1), Tail(rows), now + 1)

\* The source_id column values of a list of records (r.get("id") or r.get("Id")).
SourceIds(records) == [k \in 1..Len(records) |-> records[k].Id]

\* write_locations / write_products / write_contracts / write_extra_services
WriterRows(entity, sync_run_id, records) ==
    [k \in 1..Len(records) |-> WriterRow(entity, sync_run_id, records[k], NoneVal)]

(***************************************************************************)
(* shared/azure_clients/run_tracker.py                                     *)
(***************************************************************************)
\* The RunTracker object.
Tracker(id, entity, layer) ==
    [run_id |-> id, entity |-> entity, layer |-> layer,
     rows_read |-> 0, rows_written |-> 0, rows_skipped |-> 0]
NoTracker == Tracker(NoneVal, "none", "none")

\* __aenter__: INSERT INTO meta.sync_runs (..., status = 'running', ...).
\* updates counts the UPDATE statements applied to the row.
RunInsert(table, tr, metadata) ==
    table @@ (tr.run_id :>
        [entity |-> tr.entity, layer |-> tr.layer, status |-> "running",
         rows_read |-> 0, rows_written |-> 0, rows_skipped |-> 0,
         error_message |-> NullMsg, metadata |-> metadata, updates |-> 0])

\* A tracker that writes its terminal update only when the body did not raise.
RunUpdateOnSuccessOnly(table, tr, exc_val) ==
    IF tr.run_id \in DOMAIN table /\ exc_val = NoExc
    THEN [table EXCEPT ![tr.run_id] =
            [@ EXCEPT !.status = "success",
                      !.rows_read = tr.rows_read,
                      !.rows_written = tr.rows_written,
                      !.rows_skipped = tr.rows_skipped,
                      !.updates = @ + 1]]
    ELSE table

\* __aexit__: UPDATE meta.sync_runs SET status, counters, error_message
\* WHERE id = run_id.
RunUpdate(table, tr, exc_val) ==
    IF tr.run_id \in DOMAIN table
    THEN [table EXCEPT ![tr.run_id] =
            [@ EXCEPT !.status = IF exc_val = NoExc THEN "success" ELSE "failed",
                      !.rows_read = tr.rows_read,
                      !.rows_written = tr.rows_written,
                      !.rows_skipped = tr.rows_skipped,
                      !.error_message = IF exc_val # NoExc THEN StrOf(exc_val) ELSE NullMsg,
                      !.updates = @ + 1]]
    ELSE table

\* What execute_non_query raises when the store refuses or fails a statement.
StoreError == Exc("pyodbc.Error", 0)

\* An Error Record: (sync_run_id, source_id, entity, error_message,
\* raw_payload); stored tells whether the INSERT went through.
ErrorRecord(tr, source_id, error, raw_payload, stored) ==
    [sync_run_id |-> tr.run_id, source_id |-> source_id, entity |-> tr.entity,
     error_message |-> StrOf(error), raw_payload |-> raw_payload, stored |-> stored]

\* A log_error without its try/except: the exception of the INSERT reaches
\* the caller.
LogErrorPropagates(insertOk) ==
    IF insertOk THEN NoExc ELSE StoreError

\* log_error: `except Exception as e: logger.warning(...)`; whatever the
\* INSERT does, nothing is raised to the caller.
LogErrorRaises(insertOk) == NoExc

\* An __aexit__ that returns True would swallow the exception of the body.
AExitSwallows == TRUE

\* __aexit__ returns False: the exception of the body is not suppressed.
AExitSuppresses == FALSE

\* __aexit__ with the exception exc_val of the body (NoExc if none).  The
\* UPDATE goes through and the exception of the body goes on; or
\* execute_non_query raises: the record stays as it was and the error of the
\* store leaves the scope, in place of the exception of the body.
AExit(table, tr, exc_val, updateOk) ==
    IF updateOk
    THEN [sync_runs |-> RunUpdate(table, tr, exc_val),
          raised    |-> IF AExitSuppresses THEN NoExc ELSE exc_val]
    ELSE [sync_runs |-> table, raised |-> StoreError]

(***************************************************************************)
(* State.                                                                  *)
(***************************************************************************)
(***************************************************************************)
(* shared/azure_clients/sql_client.py                                      *)
(***************************************************************************)
\* get_connection(retries = 3, retry_delay = 5.0)
Retries == 3
RetryDelay == 5

\* What _open_connection, cursor.execute and conn.commit raise: the exception
\* class and, for a pyodbc error, its sqlstate (e.args[0]).
SqlError(type, sqlstate) == [type |-> type, sqlstate |-> sqlstate]
NoSqlError == SqlError("none", "")
LoginTimeout == SqlError("pyodbc.OperationalError", "HYT00")

\* A connection loop that retries every failure while attempts remain.
RetriesEveryFailure(e, attempt) == attempt < Retries

\* except pyodbc.OperationalError as e: sqlstate == "HYT00" and attempt <
\* retries; every other exception leaves the loop.
RetriesConnect(e, attempt) ==
    /\ e.type = "pyodbc.OperationalError"
    /\ e.sqlstate = "HYT00"
    /\ attempt < Retries

\* The state of one statement (one `with self.get_connection()` block):
\* where get_connection is, the attempt of the loop, the failures of
\* _open_connection so far, the seconds slept, the cursor.execute calls the
\* body makes (calls) and has made (executes), and what was done to the
\* connection.
Statement(at, attempt) ==
    [at |-> at, attempt |-> attempt, failures |-> <<>>, slept |-> 0, calls |-> 1,
     executes |-> 0, executed |-> FALSE, committed |-> FALSE, rolled_back |-> FALSE,
     opened |-> FALSE, closed |-> FALSE, raised |-> NoSqlError]
NoConn == [now |-> Statement("idle", 0), done |-> <<>>]

VARIABLES
    pc,               \* where the bronze orchestrator is
    step,             \* index in Entities of the current entity step
    uuids,            \* uuid.uuid4(): the next fresh identifier
    run_id,           \* run_id of the bronze invocation
    run,              \* the RunTracker of the current (or last) scope
    exc,              \* exception raised by the body of the current scope
    raised,           \* exception that left the invocation (NoExc if none)
    sync_runs,        \* meta.sync_runs: run id -> Run Record
    bronze,           \* bronze.nexudus_<entity>: sequence of rows
    dbClock,          \* GETUTCDATE()
    tasks,            \* the get calls in progress
    semaphore,        \* free slots of NexudusClient._semaphore
    page,             \* paginate: page
    results,          \* get_all: results
    pageLog,          \* the pages paginate has received, in order
    lastGet,          \* the latest get call a list step has finished
    all_resource_ids, \* _sync_resources: (location_id, resource_id) pairs
    writes,           \* per bronze table, the source ids handed to the writer
    silver,           \* silver.nexudus_<table>: source id -> row
    result,           \* what the latest Silver Writer run() returned
    prevSilver,       \* the tables of that writer as they were before that run
    history,          \* the entities whose Silver Writer has run, in order
                      \* ("none" for a run() that raised)
    writers,          \* the Silver Writer run() calls that overlap
    sync_errors,      \* the log_error calls, in order: the Error Records in
                      \* meta.sync_errors (stored) and those whose insert
                      \* failed, which only reach the local log
    conn              \* the get_connection call of the statement in progress and
                      \* the outcomes of the statements finished so far

clientVars == <<tasks, semaphore, page, results, pageLog, lastGet>>
storeVars == <<sync_runs, bronze, dbClock, writes>>
silverVars == <<silver, result, prevSilver, history, writers, sync_errors, conn>>
bronzeVars == <<pc, step, uuids, run_id, run, exc, raised, all_resource_ids>>
vars == <<pc, step, uuids, run_id, run, exc, raised, sync_runs, bronze,
          dbClock, tasks, semaphore, page, results, pageLog, lastGet, all_resource_ids,
          writes, silver, result, prevSilver, history, writers, sync_errors, conn>>

\* The silver tables, the result of a writer that has not run.
SilverTables == EntityNames \cup {"location_hours"}
NoSilver == [tb \in SilverTables |-> <<>>]
NoResult == [entity |-> "none", isDict |-> FALSE, written |-> 0, errors |-> 0, hours |-> 0]

Entity == Entities[step]

\* Python truthiness of an optional integer: None and 0 are falsy.
Truthy(x) == x # NoneVal /\ x # 0

RECURSIVE SeqSum(_)
SeqSum(s) == IF s = <<>> THEN 0 ELSE Head(s) + SeqSum(Tail(s))

(***************************************************************************)
(* paginate / get_all                                                      *)
(***************************************************************************)
\* A paginate loop that trusts HasNextPage alone (no `if not records: break`).
PaginateStepNoEmptyCheck(pg, res, data) ==
    IF ~data.isDict
    THEN [results |-> res \o data.Records, page |-> pg, done |-> TRUE,
          exc |-> Exc("AttributeError", 0)]
    ELSE IF ~data.HasNextPage
    THEN [results |-> res \o data.Records, page |-> pg, done |-> TRUE, exc |-> NoExc]
    ELSE [results |-> res \o data.Records, page |-> pg + 1, done |-> FALSE, exc |-> NoExc]

\* One turn of the paginate loop once get has returned data for `page`:
\* the new results, the next page, whether the loop ended, and the exception
\* it raised (data.get on a bare list raises AttributeError).
PaginateStep(pg, res, data) ==
    IF data.Records = <<>>
    THEN [results |-> res, page |-> pg, done |-> TRUE, exc |-> NoExc]
    ELSE IF ~data.isDict
    THEN [results |-> res \o data.Records, page |-> pg, done |-> TRUE,
          exc |-> Exc("AttributeError", 0)]
    ELSE IF ~data.HasNextPage
    THEN [results |-> res \o data.Records, page |-> pg, done |-> TRUE, exc |-> NoExc]
    ELSE [results |-> res \o data.Records, page |-> pg + 1, done |-> FALSE, exc |-> NoExc]

(***************************************************************************)
(* functions/bronze_nexudus.py                                             *)
(***************************************************************************)
\* _sync_products: resource_ids_by_location, a dict in insertion order, as a
\* sequence of [loc, ids].
RECURSIVE DictIndex(_, _)
DictIndex(d, loc) ==
    IF d = <<>> THEN 0
    ELSE IF d[Len(d)].loc = loc THEN Len(d)
    ELSE DictIndex(SubSeq(d, 1, Len(d) - 1), loc)

InSeq(x, s) == \E k \in 1..Len(s) : s[k] = x

\* A list that takes every resource id, whether it holds it already or not.
AppendAlways(ids, resource_id) == Append(ids, resource_id)

\* if resource_id not in resource_ids_by_location[location_id]: append
AppendIfNew(ids, resource_id) ==
    IF InSeq(resource_id, ids) THEN ids ELSE Append(ids, resource_id)

RECURSIVE ResourceIdsByLocation(_, _)
ResourceIdsByLocation(records, d) ==
    IF records = <<>> THEN d
    ELSE LET r == Head(records)
             k == DictIndex(d, r.Loc)
             d1 == IF k = 0 THEN Append(d, [loc |-> r.Loc, ids |-> <<>>]) ELSE d
             k1 == IF k = 0 THEN Len(d1) ELSE k
             d2 == [d1 EXCEPT ![k1].ids = AppendIfNew(@, r.Res)]
         IN IF Truthy(r.Res) /\ Truthy(r.Loc)
            THEN ResourceIdsByLocation(Tail(records), d2)
            ELSE ResourceIdsByLocation(Tail(records), d)

\* _sync_resources: all_resource_ids, the (location_id, resource_id) pairs.
RECURSIVE AllResourceIds(_)
AllResourceIds(d) ==
    IF d = <<>> THEN <<>>
    ELSE [k \in 1..Len(Head(d).ids) |-> <<Head(d).loc, Head(d).ids[k]>>]
         \o AllResourceIds(Tail(d))

\* _sync_resources after gather: the (record, location_id) pairs kept, in order.
RECURSIVE GatherRecords(_, _)
GatherRecords(ts, ids) ==
    IF ts = <<>> THEN <<>>
    ELSE (IF Head(ts).ok /\ Head(ts).body.rec # EmptyRec
          THEN <<[rec |-> Head(ts).body.rec, location_id |-> Head(ids)[1]]>>
          ELSE <<>>)
         \o GatherRecords(Tail(ts), Tail(ids))

\* A count of skipped fetches that takes in the absent records.
GatherSkippedWithAbsent(ts) ==
    Cardinality({k \in 1..Len(ts) : ts[k].st = "done" /\ ~ts[k].ok})

\* run.rows_skipped += 1 for every result that is an exception.
GatherSkipped(ts) == Cardinality({k \in 1..Len(ts) : GetOneRaised(ts[k])})

\* A gather that raises the first exception of its awaitables to the caller.
GatherRaisesFirst(ts) ==
    LET failed == {k \in 1..Len(ts) : GetOneRaised(ts[k])}
    IN IF failed = {} THEN NoExc
       ELSE ts[CHOOSE k \in failed : \A j \in failed : k <= j].exc

\* asyncio.gather(*tasks, return_exceptions=True): the exceptions of the
\* awaitables are results; gather itself raises nothing.
GatherRaises(ts) == NoExc

\* for record, location_id in records: writer.write_resources([record], location_id)
RECURSIVE WriteResources(_, _, _, _)
WriteResources(table, sid, recs, now) ==
    IF recs = <<>> THEN table
    ELSE WriteResources(
            BatchUpsert(table,
                        <<WriterRow("resources", sid, Head(recs).rec, Head(recs).location_id)>>,
                        now),
            sid, Tail(recs), now + 1)

\* A finished call as its caller keeps it: the outcome, the number of attempts
\* and what the last attempt met; the clock of the call is gone.
Settle(task) ==
    [task EXCEPT !.t = 0, !.at = NoneVal, !.prevAt = NoneVal, !.prevRA = NoRetryAfter,
                 !.ra = NoRetryAfter, !.wait = 0]

Init ==
    /\ pc = "idle"
    /\ step = 1
    /\ uuids = 1
    /\ run_id = NoneVal
    /\ run = NoTracker
    /\ exc = NoExc
    /\ raised = NoExc
    /\ sync_runs = <<>>
    /\ bronze = [e \in EntityNames |-> <<>>]
    /\ dbClock = 0
    /\ tasks = <<>>
    /\ semaphore = MaxConcurrent
    /\ page = 1
    /\ results = <<>>
    /\ pageLog = <<>>
    /\ lastGet = NewTask
    /\ all_resource_ids = <<>>
    /\ writes = [e \in EntityNames |-> <<>>]
    /\ silver = NoSilver
    /\ result = NoResult
    /\ prevSilver = NoSilver
    /\ history = <<>>
    /\ writers = <<>>
    /\ sync_errors = <<>>
    /\ conn = NoConn

\* nexudus_to_bronze: the timer fires; get_bearer_token succeeds, the client
\* and the BronzeWriter are created with a fresh run_id.
BronzeStart ==
    /\ pc = "idle"
    /\ run_id' = uuids
    /\ uuids' = uuids + 1
    /\ pc' = "enter"
    /\ UNCHANGED <<step, run, exc, raised, storeVars, clientVars, all_resource_ids>>
    /\ UNCHANGED silverVars

\* nexudus_to_bronze: get_bearer_token raises EnvironmentError; nothing starts.
AuthFail ==
    /\ pc = "idle"
    /\ pc' = "raised"
    /\ raised' = Exc("EnvironmentError", 0)
    /\ UNCHANGED <<step, uuids, run_id, run, exc, storeVars, clientVars, all_resource_ids>>
    /\ UNCHANGED silverVars

\* __aenter__ has inserted the Run Record: the body starts.
SyncEntered ==
    /\ LET tr == Tracker(uuids, Entity, "bronze")
       IN /\ sync_runs' = RunInsert(sync_runs, tr, run_id)
          /\ run' = IF step = 4 THEN [tr EXCEPT !.rows_read = Len(all_resource_ids)] ELSE tr
    /\ uuids' = uuids + 1
    /\ exc' = NoExc
    /\ IF step = 4
       THEN /\ tasks' = [k \in 1..Len(all_resource_ids) |-> NewTask]
            /\ pc' = "gather"
            /\ UNCHANGED <<page, results, pageLog>>
       ELSE /\ tasks' = <<NewTask>>
            /\ page' = 1
            /\ results' = <<>>
            /\ pageLog' = <<>>
            /\ pc' = "fetch"
    /\ lastGet' = NewTask
    /\ UNCHANGED <<step, run_id, raised, bronze, dbClock, writes, semaphore,
                   all_resource_ids>>
    /\ UNCHANGED silverVars

\* `async with RunTracker(...) as run:` of the current entity step, up to the
\* first await of its body; when the INSERT of __aenter__ raises, no scope is
\* entered and the error of the store leaves nexudus_to_bronze.
SyncEnter(insertOk) ==
    /\ pc = "enter"
    /\ step = 4 => all_resource_ids # <<>>
    /\ IF ~insertOk
       THEN /\ uuids' = uuids + 1
            /\ raised' = StoreError
            /\ pc' = "raised"
            /\ UNCHANGED <<step, run_id, run, exc, storeVars, clientVars,
                           all_resource_ids>>
            /\ UNCHANGED silverVars
       ELSE SyncEntered

\* A resources step that raises when there is no resource id.
ResourcesSkipRaises ==
    /\ pc = "enter"
    /\ step = 4
    /\ all_resource_ids = <<>>
    /\ raised' = Exc("ValueError", 0)
    /\ pc' = "raised"
    /\ UNCHANGED <<step, uuids, run_id, run, exc, storeVars, clientVars, all_resource_ids>>
    /\ UNCHANGED silverVars

\* _sync_resources with no resource ids: returns before any RunTracker.
ResourcesSkip ==
    /\ pc = "enter"
    /\ step = 4
    /\ all_resource_ids = <<>>
    /\ step' = 5
    /\ UNCHANGED <<pc, uuids, run_id, run, exc, raised, storeVars, clientVars,
                   all_resource_ids>>
    /\ UNCHANGED silverVars

\* The responses the current request of task i can meet: any body a list
\* endpoint can answer with (Responses), or what a whole sync meets
\* (SyncResponses).
Responses(i) ==
    IF pc = "fetch" THEN ListResponses(Entity, page, 1) ELSE {}

SyncResponses(i) ==
    IF pc = "fetch" THEN SyncListResponses(Entity, page, 1)
    ELSE IF pc = "gather" THEN OneResponses(all_resource_ids[i][2], 1)
    ELSE {}

\* A gate that admits every caller, whatever the number of free slots.
SemaphoreAdmitsAlways(free) == TRUE

\* `async with self._semaphore`: asyncio.Semaphore.acquire goes through only
\* while a slot is free.
SemaphoreAdmits(free) == free > 0

\* get: an attempt takes a semaphore slot and sends its request.
Acquire(i) ==
    /\ pc \in {"fetch", "gather"}
    /\ tasks[i].st = "queued"
    /\ SemaphoreAdmits(semaphore)
    /\ pc = "fetch" => page <= MaxPages
    /\ tasks' = [tasks EXCEPT ![i] = TaskIssue(@)]
    /\ semaphore' = semaphore - 1
    /\ UNCHANGED <<bronzeVars, storeVars, page, results, pageLog, lastGet>>
    /\ UNCHANGED silverVars

\* An `async with self._semaphore` that keeps the slot when its body raised.
SlotsAfterExitLeaky(free, bodyRaised) == IF bodyRaised THEN free ELSE free + 1

\* `async with self._semaphore`: __aexit__ releases the slot on every exit of
\* the body, whether it returned or raised.
SlotsAfterExit(free, bodyRaised) == free + 1

\* get: the request of task i is answered.
Respond(i, r) ==
    /\ pc \in {"fetch", "gather"}
    /\ tasks[i].st = "inflight"
    /\ LET res == TaskRespond(tasks[i], r)
       IN /\ tasks' = [tasks EXCEPT ![i] = res.task]
          /\ semaphore' = IF res.release
                           THEN SlotsAfterExit(semaphore, ~(res.task.st = "done" /\ res.task.ok))
                           ELSE semaphore
    /\ UNCHANGED <<bronzeVars, storeVars, page, results, pageLog, lastGet>>
    /\ UNCHANGED silverVars

\* get: the Retry-After sleep of task i is over.
Wake429(i) ==
    /\ pc \in {"fetch", "gather"}
    /\ tasks[i].st = "sleep429"
    /\ tasks' = [tasks EXCEPT ![i] = TaskWake429(@)]
    /\ semaphore' = SlotsAfterExit(semaphore, TRUE)
    /\ UNCHANGED <<bronzeVars, storeVars, page, results, pageLog, lastGet>>
    /\ UNCHANGED silverVars

\* get: the tenacity wait of task i is over.
BackoffDone(i) ==
    /\ pc \in {"fetch", "gather"}
    /\ tasks[i].st = "backoff"
    /\ tasks' = [tasks EXCEPT ![i] = TaskBackoffDone(@)]
    /\ UNCHANGED <<bronzeVars, storeVars, semaphore, page, results, pageLog, lastGet>>
    /\ UNCHANGED silverVars

\* get_all / paginate once get has returned or raised (task) for the current
\* page: the exception leaves the body, or the loop takes its next turn.
PaginateApply(task) ==
    /\ lastGet' = Settle(task)
    /\ IF ~task.ok
       THEN /\ exc' = task.exc
            /\ pc' = "exit"
            /\ tasks' = <<>>
            /\ UNCHANGED <<page, results, pageLog>>
       ELSE LET nx == PaginateStep(page, results, task.body)
            IN /\ results' = nx.results
               /\ page' = nx.page
               /\ pageLog' = Append(pageLog,
                                [page |-> page, n |-> Len(task.body.Records),
                                 more |-> task.body.isDict /\ task.body.HasNextPage])
               /\ exc' = nx.exc
               /\ pc' = IF nx.exc # NoExc THEN "exit"
                        ELSE IF nx.done THEN "fetched" ELSE "fetch"
               /\ tasks' = IF nx.done THEN <<>> ELSE <<NewTask>>
    /\ UNCHANGED <<step, uuids, run_id, run, raised, storeVars, semaphore,
                   all_resource_ids>>
    /\ UNCHANGED silverVars

PaginateNext ==
    /\ pc = "fetch"
    /\ tasks[1].st = "done"
    /\ PaginateApply(tasks[1])

\* The body of a list entity step after get_all: rows_read, the blob
\* snapshot, the bronze write, rows_written (and, for products, the
\* resource ids found).  The store takes the first `written` MERGEs of the
\* write; when that is not all of them, execute_non_query raises on the next
\* one and the exception leaves the body before rows_written is assigned.
BodyWrite(blobOk, written) ==
    /\ pc = "fetched"
    /\ pc' = "exit"
    /\ IF ~blobOk
       THEN /\ run' = [run EXCEPT !.rows_read = Len(results)]
            /\ exc' = Exc("AzureError", 0)
            /\ UNCHANGED <<bronze, dbClock, writes, all_resource_ids>>
       ELSE IF written < Len(results)
       THEN /\ run' = [run EXCEPT !.rows_read = Len(results)]
            /\ bronze' = [bronze EXCEPT ![Entity] =
                            BatchUpsert(@, SubSeq(WriterRows(Entity, run_id, results),
                                                  1, written), dbClock)]
            /\ dbClock' = dbClock + written
            /\ writes' = [writes EXCEPT ![Entity] =
                            @ \o SubSeq(SourceIds(results), 1, written)]
            /\ exc' = StoreError
            /\ UNCHANGED all_resource_ids
       ELSE /\ run' = [run EXCEPT !.rows_read = Len(results), !.rows_written = Len(results)]
            /\ bronze' = [bronze EXCEPT ![Entity] =
                            BatchUpsert(@, WriterRows(Entity, run_id, results), dbClock)]
            /\ dbClock' = dbClock + Len(results)
            /\ writes' = [writes EXCEPT ![Entity] = @ \o SourceIds(results)]
            /\ all_resource_ids' = IF step = 2
                                   THEN AllResourceIds(ResourceIdsByLocation(results, <<>>))
                                   ELSE all_resource_ids
            /\ exc' = NoExc
    /\ UNCHANGED <<step, uuids, run_id, raised, sync_runs, clientVars>>
    /\ UNCHANGED silverVars

\* _sync_resources once gather has returned: skipped count, the blob
\* snapshot, one write per kept record, rows_written.  The store takes the
\* first `written` of the writes; when that is not all of them, the next
\* write_resources raises and the exception leaves the body.
GatherDone(blobOk, written) ==
    /\ pc = "gather"
    /\ \A k \in 1..Len(tasks) : tasks[k].st = "done"
    /\ pc' = "exit"
    /\ LET recs == GatherRecords(tasks, all_resource_ids)
           skipped == GatherSkipped(tasks)
       IN IF GatherRaises(tasks) # NoExc
          THEN /\ exc' = GatherRaises(tasks)
               /\ UNCHANGED <<run, bronze, dbClock, writes>>
          ELSE IF ~blobOk
          THEN /\ run' = [run EXCEPT !.rows_skipped = skipped]
               /\ exc' = Exc("AzureError", 0)
               /\ UNCHANGED <<bronze, dbClock, writes>>
          ELSE IF written < Len(recs)
          THEN /\ run' = [run EXCEPT !.rows_skipped = skipped]
               /\ bronze' = [bronze EXCEPT !["resources"] =
                               WriteResources(@, run_id, SubSeq(recs, 1, written), dbClock)]
               /\ dbClock' = dbClock + written
               /\ writes' = [writes EXCEPT !["resources"] =
                               @ \o [k \in 1..written |-> recs[k].rec.Id]]
               /\ exc' = StoreError
          ELSE /\ run' = [run EXCEPT !.rows_skipped = skipped, !.rows_written = Len(recs)]
               /\ bronze' = [bronze EXCEPT !["resources"] =
                               WriteResources(@, run_id, recs, dbClock)]
               /\ dbClock' = dbClock + Len(recs)
               /\ writes' = [writes EXCEPT !["resources"] =
                               @ \o [k \in 1..Len(recs) |-> recs[k].rec.Id]]
               /\ exc' = NoExc
    /\ UNCHANGED <<step, uuids, run_id, raised, sync_runs, clientVars, all_resource_ids>>
    /\ UNCHANGED silverVars

\* RunTracker.__aexit__ of the current step; the exception of the body, or
\* the error of a failed UPDATE, leaves nexudus_to_bronze, otherwise the next
\* step (or the end) follows.
SyncExit(updateOk) ==
    /\ pc = "exit"
    /\ LET out == AExit(sync_runs, run, exc, updateOk)
       IN /\ sync_runs' = out.sync_runs
          /\ raised' = out.raised
          /\ IF out.raised # NoExc
             THEN pc' = "raised" /\ UNCHANGED step
             ELSE IF step = 5
             THEN pc' = "returned" /\ UNCHANGED step
             ELSE pc' = "enter" /\ step' = step + 1
    /\ tasks' = <<>>
    /\ UNCHANGED <<uuids, run_id, run, exc, bronze, dbClock, writes, semaphore, page,
                   results, pageLog, lastGet, all_resource_ids>>
    /\ UNCHANGED silverVars

(***************************************************************************)
(* The upstream a whole invocation meets: a request is answered with what  *)
(* the upstream holds, with an error the client does not retry, or with a  *)
(* transient failure; a call that is being retried meets its failure again *)
(* or an answer that ends it.                                              *)
(***************************************************************************)
\* The failure responses after which get makes another attempt.
RetryableResponses ==
    {r \in FailureResponses :
        \/ r.kind \in {"ServerConnectionError", "TimeoutError"}
        \/ r.kind = "http" /\ r.status \in RetryableStatuses
                           /\ RetryAfterSeconds(r.header).ok}

\* The transient failures explored: a dropped connection, a rate limit and
\* an unavailable upstream.
ScriptFailures ==
    {r \in RetryableResponses :
        r.kind = "ServerConnectionError" \/ r.status \in {429, 503}}

\* The attempt of task that is in flight is answered with the failure its
\* previous attempt met.
SameFailure(task, r) ==
    /\ task.attempt > 1
    /\ r.kind = task.last.kind /\ r.status = task.last.status
    /\ r.status = 429 => task.prevRA = <<RetryAfterSeconds(r.header).val>>

\* The failed attempts of the calls of the current step so far, and the
\* number of them the upstream of an invocation answers with in one step.
MaxStepFailures == 5

StepFailures ==
    SeqSum([k \in 1..Len(tasks) |->
              IF tasks[k].st \in {"sleep429", "backoff"} \/ (tasks[k].st = "done" /\ ~tasks[k].ok)
              THEN tasks[k].attempt
              ELSE tasks[k].attempt - 1])

AttemptResponses(i) ==
    {r \in SyncResponses(i) :
        \/ r \notin RetryableResponses
        \/ /\ r \in ScriptFailures
           /\ tasks[i].attempt = 1 \/ SameFailure(tasks[i], r)
           /\ StepFailures < MaxStepFailures}

(***************************************************************************)
(* Spec: one invocation of the bronze orchestrator, attempt by attempt.    *)
(***************************************************************************)
Next ==
    \/ BronzeStart
    \/ AuthFail
    \/ \E insertOk \in BOOLEAN : SyncEnter(insertOk)
    \/ ResourcesSkip
    \/ \E i \in DOMAIN tasks : Acquire(i)
    \/ \E i \in DOMAIN tasks : \E r \in AttemptResponses(i) : Respond(i, r)
    \/ \E i \in DOMAIN tasks : Wake429(i)
    \/ \E i \in DOMAIN tasks : BackoffDone(i)
    \/ PaginateNext
    \/ \E blobOk \in BOOLEAN : \E written \in 0..Len(results) : BodyWrite(blobOk, written)
    \/ \E blobOk \in BOOLEAN : \E written \in 0..Len(tasks) : GatherDone(blobOk, written)
    \/ \E updateOk \in BOOLEAN : SyncExit(updateOk)

Spec == Init /\ [][Next]_vars

(***************************************************************************)
(* SpecClient: one get_all call of the client, attempt by attempt.         *)
(***************************************************************************)
ClientInit ==
    /\ pc = "fetch"
    /\ step = 1
    /\ uuids = 3
    /\ run_id = 1
    /\ run = Tracker(2, Entities[1], "bronze")
    /\ exc = NoExc
    /\ raised = NoExc
    /\ sync_runs = RunInsert(<<>>, Tracker(2, Entities[1], "bronze"), 1)
    /\ bronze = [e \in EntityNames |-> <<>>]
    /\ dbClock = 0
    /\ tasks = <<NewTask>>
    /\ semaphore = MaxConcurrent
    /\ page = 1
    /\ results = <<>>
    /\ pageLog = <<>>
    /\ lastGet = NewTask
    /\ all_resource_ids = <<>>
    /\ writes = [e \in EntityNames |-> <<>>]
    /\ silver = NoSilver
    /\ result = NoResult
    /\ prevSilver = NoSilver
    /\ history = <<>>
    /\ writers = <<>>
    /\ sync_errors = <<>>
    /\ conn = NoConn

ClientNext ==
    \/ \E i \in DOMAIN tasks : Acquire(i)
    \/ \E i \in DOMAIN tasks : \E r \in Responses(i) : Respond(i, r)
    \/ \E i \in DOMAIN tasks : Wake429(i)
    \/ \E i \in DOMAIN tasks : BackoffDone(i)
    \/ PaginateNext

SpecClient == ClientInit /\ [][ClientNext]_vars

(***************************************************************************)
(* SpecWriter: the BronzeWriter driven directly, run after run, as         *)
(* scripts/python_scripts/test_local.py drives it.                         *)
(***************************************************************************)
MaxWriterRuns == 3
MaxWrites == 3

TotalWrites == SeqSum([k \in 1..Len(Entities) |-> Len(writes[Entities[k]])])

\* The record lists handed to a write_* call by the run with the given id
\* (the payload of a record differs from run to run).
WriterInputs(v) ==
    {<<Rec(1, 10, NoneVal, v, FALSE)>>,
     <<Rec(2, 10, NoneVal, v, FALSE)>>,
     <<Rec(1, 10, NoneVal, v, FALSE), Rec(2, 10, NoneVal, v, FALSE)>>}

WriterInit ==
    /\ pc = "writer"
    /\ step = 1
    /\ uuids = 1
    /\ run_id = NoneVal
    /\ run = NoTracker
    /\ exc = NoExc
    /\ raised = NoExc
    /\ sync_runs = <<>>
    /\ bronze = [e \in EntityNames |-> <<>>]
    /\ dbClock = 0
    /\ tasks = <<>>
    /\ semaphore = MaxConcurrent
    /\ page = 1
    /\ results = <<>>
    /\ pageLog = <<>>
    /\ lastGet = NewTask
    /\ all_resource_ids = <<>>
    /\ writes = [e \in EntityNames |-> <<>>]
    /\ silver = NoSilver
    /\ result = NoResult
    /\ prevSilver = NoSilver
    /\ history = <<>>
    /\ writers = <<>>
    /\ sync_errors = <<>>
    /\ conn = NoConn

writerFrame == <<pc, step, run, exc, raised, sync_runs, clientVars, all_resource_ids,
                 silverVars>>

\* run_id = uuid.uuid4(); writer = BronzeWriter(run_id)
NewWriter ==
    /\ pc = "writer"
    /\ uuids <= MaxWriterRuns
    /\ run_id' = uuids
    /\ uuids' = uuids + 1
    /\ UNCHANGED <<writerFrame, bronze, dbClock, writes>>

\* writer.write_locations / write_products / write_contracts /
\* write_extra_services (records)
WriteList(e, records) ==
    /\ pc = "writer"
    /\ run_id # NoneVal
    /\ e # "resources"
    /\ TotalWrites + Len(records) <= MaxWrites
    /\ bronze' = [bronze EXCEPT ![e] = BatchUpsert(@, WriterRows(e, run_id, records), dbClock)]
    /\ dbClock' = dbClock + Len(records)
    /\ writes' = [writes EXCEPT ![e] = @ \o SourceIds(records)]
    /\ UNCHANGED <<writerFrame, uuids, run_id>>

\* writer.write_resources(records, location_id)
WriteResourcesCall(records, location_id) ==
    /\ pc = "writer"
    /\ run_id # NoneVal
    /\ TotalWrites + Len(records) <= MaxWrites
    /\ bronze' = [bronze EXCEPT !["resources"] =
                    BatchUpsert(@, [k \in 1..Len(records) |->
                                      WriterRow("resources", run_id, records[k], location_id)],
                                dbClock)]
    /\ dbClock' = dbClock + Len(records)
    /\ writes' = [writes EXCEPT !["resources"] = @ \o SourceIds(records)]
    /\ UNCHANGED <<writerFrame, uuids, run_id>>

WriterNext ==
    \/ NewWriter
    \/ \E e \in EntityNames : \E records \in WriterInputs(run_id) : WriteList(e, records)
    \/ \E records \in WriterInputs(run_id) : \E location_id \in {10, 20} :
          WriteResourcesCall(records, location_id)

SpecWriter == WriterInit /\ [][WriterNext]_vars

(***************************************************************************)
(* shared/nexudus/transformers/*.py                                        *)
(***************************************************************************)
\* EXCLUDED_SOURCE_IDS (also the set literal in SilverProductsWriter.run).
ExcludedSourceIds == {1376491116, 1376491117}

\* The dict a transformer returns: the key, the lineage columns, the
\* location reference and the value columns (fields, taken from the payload).
SilverRow(source_id, bronze_id, sync_run_id, location_source_id, fields) ==
    [source_id |-> source_id, bronze_id |-> bronze_id, sync_run_id |-> sync_run_id,
     location_source_id |-> location_source_id, fields |-> fields]
NoSilverRow == SilverRow(NoneVal, NoneVal, NoneVal, NoneVal, 0)

\* What a transformer call does: returns a row, returns None, or raises.
Transformed(row) == [status |-> "ok", row |-> row, exc |-> NoExc]
TransformedNone == [status |-> "none", row |-> NoSilverRow, exc |-> NoExc]
TransformRaises(type) == [status |-> "raise", row |-> NoSilverRow, exc |-> Exc(type, 0)]

\* transform_location: None for an excluded id, KeyError from raw["Id"],
\* TypeError from _strip_html on a non-string AboutUs (bad).
transform_location(raw, bronze_id, sync_run_id) ==
    IF raw.Id \in ExcludedSourceIds THEN TransformedNone
    ELSE IF raw.Id = NoneVal THEN TransformRaises("KeyError")
    ELSE IF raw.bad THEN TransformRaises("TypeError")
    ELSE Transformed(SilverRow(raw.Id, bronze_id, sync_run_id, NoneVal, raw.ver))

\* DAYS: the day numbers of the week, Monday (1) to Sunday (7).
DAYS == <<1, 2, 3, 4, 5, 6, 7>>

\* One opening-hours row: the location, the day and the day's is_closed,
\* open_time and close_time (fields, taken from the payload).
HoursRow(location_source_id, day_of_week, fields) ==
    [location_source_id |-> location_source_id, day_of_week |-> day_of_week,
     fields |-> fields]

\* The list of rows transform_location_hours returns.
TransformedRows(rows) == [status |-> "ok", rows |-> rows, exc |-> NoExc]

\* A weekly-hours transform without the exclusion check.
transform_location_hours_unfiltered(raw) ==
    IF raw.Id = NoneVal THEN TransformRaises("KeyError")
    ELSE TransformedRows([d \in DOMAIN DAYS |-> HoursRow(raw.Id, DAYS[d], raw.ver)])

\* transform_location_hours: None for an excluded id, KeyError from
\* raw["Id"], else one row per day of DAYS.
transform_location_hours(raw) ==
    IF raw.Id \in ExcludedSourceIds THEN TransformedNone
    ELSE IF raw.Id = NoneVal THEN TransformRaises("KeyError")
    ELSE TransformedRows([d \in DOMAIN DAYS |-> HoursRow(raw.Id, DAYS[d], raw.ver)])

\* transform_product: KeyError from raw["Id"], AttributeError from
\* _extract_custom_size on a malformed CustomFields.Data item (bad).
transform_product(raw, bronze_id, sync_run_id) ==
    IF raw.Id = NoneVal THEN TransformRaises("KeyError")
    ELSE IF raw.bad THEN TransformRaises("AttributeError")
    ELSE Transformed(SilverRow(raw.Id, bronze_id, sync_run_id, raw.Loc, raw.ver))

\* transform_contract: KeyError from raw["Id"]; OverflowError from _int on
\* an infinite float or _decimal on an integer too large for a float (bad),
\* which their `except (TypeError, ValueError)` lets through.
transform_contract(raw, bronze_id, sync_run_id) ==
    IF raw.Id = NoneVal THEN TransformRaises("KeyError")
    ELSE IF raw.bad THEN TransformRaises("OverflowError")
    ELSE Transformed(SilverRow(raw.Id, bronze_id, sync_run_id, raw.Loc, raw.ver))

\* transform_resource: None when Id is missing or falsy; never raises.
transform_resource(raw, bronze_id, sync_run_id) ==
    IF ~Truthy(raw.Id) THEN TransformedNone
    ELSE Transformed(SilverRow(raw.Id, bronze_id, sync_run_id, raw.Loc, raw.ver))

\* transform_extra_service: KeyError from raw["Id"] or raw["BusinessId"];
\* OverflowError from _int / _decimal as in transform_contract (bad).
transform_extra_service(raw, bronze_id, sync_run_id) ==
    IF raw.Id = NoneVal \/ raw.Loc = NoneVal THEN TransformRaises("KeyError")
    ELSE IF raw.bad THEN TransformRaises("OverflowError")
    ELSE Transformed(SilverRow(raw.Id, bronze_id, sync_run_id, raw.Loc, raw.ver))

\* The transformer each Silver Writer calls.
Transform(e, raw, bronze_id, sync_run_id) ==
    CASE e = "locations" -> transform_location(raw, bronze_id, sync_run_id)
      [] e = "products" -> transform_product(raw, bronze_id, sync_run_id)
      [] e = "contracts" -> transform_contract(raw, bronze_id, sync_run_id)
      [] e = "resources" -> transform_resource(raw, bronze_id, sync_run_id)
      [] OTHER -> transform_extra_service(raw, bronze_id, sync_run_id)

(***************************************************************************)
(* shared/azure_clients/silver_write_locations.py, silver_writer_*.py      *)
(***************************************************************************)
\* A loader that keeps, per source_id, the row with the least synced_at.
LoadOldestBronze(table) ==
    SelectSeq(table, LAMBDA b :
        /\ b.source_id # NoneVal
        /\ \A k \in 1..Len(table) :
              table[k].source_id = b.source_id => table[k].synced_at >= b.synced_at)

\* _load_latest_bronze: b INNER JOIN (SELECT source_id, MAX(synced_at) ...
\* GROUP BY source_id) ON b.source_id = latest.source_id AND b.synced_at =
\* latest.latest; a NULL source_id joins nothing.
LoadLatestBronze(table) ==
    SelectSeq(table, LAMBDA b :
        /\ b.source_id # NoneVal
        /\ \A k \in 1..Len(table) :
              table[k].source_id = b.source_id => table[k].synced_at <= b.synced_at)

\* A MERGE condition that matches a row only when the same run wrote it.
MergeMatchesSameRun(target, row) ==
    target.source_id = row.source_id /\ target.sync_run_id = row.sync_run_id

\* MERGE ... USING (SELECT ? AS source_id) AS source
\*     ON target.source_id = source.source_id
MergeMatches(target, row) == target.source_id = row.source_id

\* A MERGE that never matches: every upsert inserts.
SilverMergeInsertOnly(table, row, now) ==
    Append(table, row @@ [last_synced_at |-> now])

\* _upsert / _upsert_location / _upsert_hours: MERGE ... ON target.source_id
\* = source.source_id; WHEN MATCHED every column and last_synced_at =
\* GETUTCDATE() are set, WHEN NOT MATCHED the row is inserted (last_synced_at
\* left to the column default, the store clock).
SilverMerge(table, row, now) ==
    IF \E k \in 1..Len(table) : MergeMatches(table[k], row)
    THEN [k \in 1..Len(table) |->
            IF MergeMatches(table[k], row)
            THEN row @@ [last_synced_at |-> now]
            ELSE table[k]]
    ELSE Append(table, row @@ [last_synced_at |-> now])

\* _upsert_hours: MERGE ... ON target.location_source_id =
\* source.location_source_id AND target.day_of_week = source.day_of_week;
\* WHEN MATCHED is_closed, open_time, close_time and last_synced_at =
\* GETUTCDATE() are set, WHEN NOT MATCHED the row is inserted.
HoursMerge(table, h, now) ==
    LET matches(target) == /\ target.location_source_id = h.location_source_id
                           /\ target.day_of_week = h.day_of_week
    IN IF \E k \in 1..Len(table) : matches(table[k])
       THEN [k \in 1..Len(table) |->
               IF matches(table[k])
               THEN [table[k] EXCEPT !.fields = h.fields, !.last_synced_at = now]
               ELSE table[k]]
       ELSE Append(table, h @@ [last_synced_at |-> now])

\* The state of a run() call: the tables, the counters, the store clock and
\* the exception that left run() (NoExc while none has).
RunState(tables, now) ==
    [silver |-> tables, ok |-> 0, errors |-> 0, hours |-> 0, now |-> now, exc |-> NoExc]

\* The store refuses the MERGE of a row that holds a value one of its columns
\* cannot take (payloads above TooLong stand for those): execute_non_query
\* rolls back and raises.
TooLong == 90
StoreRejects(row) == row.fields > TooLong

\* The store refuses the MERGE of the Wednesday hours row of a location
\* whose WednesdayOpenTime the open_time column cannot take (payloads above
\* LateHours, up to TooLong, stand for those).
LateHours == 60
RefusedDay == 3
StoreRejectsHours(h) == h.fields > LateHours /\ h.day_of_week = RefusedDay

\* A loop that lets the exception of a refused upsert leave run().
UpsertFailureFatal(e, st) == [st EXCEPT !.exc = StoreError]

\* The `except Exception` around transform and upsert also catches the
\* exception of a refused upsert: the row is logged and counted in errors
\* (locations: logged and skipped), and the loop goes on.
UpsertFailure(e, st) ==
    IF e = "locations" THEN st ELSE [st EXCEPT !.errors = @ + 1]

\* The first try of one turn of the `for row in rows` loop of run():
\* transform and upsert of the row.  Locations: a failed transform or upsert
\* is logged and skipped (not counted).  Products: rows of the excluded
\* locations are skipped.  The other writers count the failure in errors.
UpsertRow(e, b, sync_run_id, st) ==
    LET raw == JsonLoads(b.raw_json)
        t == Transform(e, raw, b.id, sync_run_id)
    IN CASE t.status = "raise" ->
              IF e = "locations" THEN st ELSE [st EXCEPT !.errors = @ + 1]
         [] t.status = "none" -> st
         [] t.status = "ok" /\ e = "products"
              /\ t.row.location_source_id \in ExcludedSourceIds -> st
         [] t.status = "ok" /\ StoreRejects(t.row) -> UpsertFailure(e, st)
         [] OTHER -> [st EXCEPT !.silver[e] = SilverMerge(@, t.row, st.now + 1),
                                !.now = @ + 1,
                                !.ok = @ + 1]

\* The hours rows the second try of the turn sets out to upsert: those of
\* transform_location_hours, reached only when the location row was
\* upserted (the first try ends in `continue` otherwise); none when the
\* transform returns None or raises (logged).
HoursRows(e, b, sync_run_id) ==
    LET raw == JsonLoads(b.raw_json)
        t == Transform(e, raw, b.id, sync_run_id)
        h == transform_location_hours(raw)
    IN IF e = "locations" /\ t.status = "ok" /\ ~StoreRejects(t.row) /\ h.status = "ok"
       THEN h.rows
       ELSE <<>>

\* One self._upsert_hours(h) of `for h in hours_rows`, pending being the
\* rows not yet upserted: a refused MERGE leaves the loop (the exception is
\* logged, the rows before it stay, hours_count is not touched); after the
\* last row hours_count += len(hours_rows).
UpsertHours(pending, st) ==
    IF StoreRejectsHours(Head(pending))
    THEN [st |-> st, pending |-> <<>>]
    ELSE LET up == [st EXCEPT !.silver["location_hours"] =
                                 HoursMerge(@, Head(pending), st.now + 1),
                              !.now = @ + 1]
         IN [st |-> IF Len(pending) = 1 THEN [up EXCEPT !.hours = @ + Len(DAYS)] ELSE up,
             pending |-> Tail(pending)]

RECURSIVE HoursLoop(_, _)
HoursLoop(pending, st) ==
    IF pending = <<>> THEN st
    ELSE HoursLoop(UpsertHours(pending, st).pending, UpsertHours(pending, st).st)

\* One turn of the `for row in rows` loop of run(): the row, then (locations)
\* its hours rows.
WriterStep(e, b, sync_run_id, st) ==
    HoursLoop(HoursRows(e, b, sync_run_id), UpsertRow(e, b, sync_run_id, st))

RECURSIVE WriterLoop(_, _, _, _)
WriterLoop(e, rows, sync_run_id, st) ==
    IF rows = <<>> \/ st.exc # NoExc THEN st
    ELSE WriterLoop(e, Tail(rows), sync_run_id, WriterStep(e, Head(rows), sync_run_id, st))

\* What run() returns: SilverLocationsWriter a tuple (loc_count, hours_count),
\* the others a dict {entity: ok, "errors": errors}.
RunResult(e, st) ==
    IF e = "locations"
    THEN [entity |-> e, isDict |-> FALSE, written |-> st.ok, errors |-> NoneVal,
          hours |-> st.hours]
    ELSE [entity |-> e, isDict |-> TRUE, written |-> st.ok, errors |-> st.errors,
          hours |-> 0]

\* Silver<Entity>Writer(sync_run_id).run(); readOk: the query of
\* _load_latest_bronze goes through (its exception is raised before the loop,
\* outside any try).
WriterRunState(e, sync_run_id, readOk) ==
    IF readOk
    THEN WriterLoop(e, LoadLatestBronze(bronze[e]), sync_run_id, RunState(silver, dbClock))
    ELSE [RunState(silver, dbClock) EXCEPT !.exc = StoreError]

(***************************************************************************)
(* SpecSilver: the Silver Writers over a bronze tier that holds several    *)
(* rows per source_id, run directly (scripts/python_scripts/test_*_silver) *)
(* and through functions/silver_nexudus.py bronze_to_silver.               *)
(***************************************************************************)
MaxSilverRuns == 2

\* The order of the scopes in bronze_to_silver.
SilverOrder == <<"locations", "products", "resources", "contracts", "extra_services">>

\* The bronze rows the writers start from: three rows, their source ids,
\* their synced_at (all different: the store clock moves between two
\* statements) and the shape of each payload.  The MERGE of the bronze writer
\* looks for "the latest row of a source_id", so a table may hold several.
SourcePatterns == {<<1, 1, 2>>, <<1, 2, 2>>, <<1, 1, 1376491116>>}
SyncedOrders == {<<1, 2, 3>>, <<2, 1, 3>>, <<3, 2, 1>>}
PayloadKinds == {"good", "noid", "bad", "toolong", "latehours"}

\* The payload of bronze row k: well formed, without its Id, with a field
\* its transformer cannot process, with a value the silver table refuses, or
\* (locations) with an opening time the hours table refuses.
Payload(kind, id, k) ==
    CASE kind = "noid" -> Rec(NoneVal, 10, NoneVal, k, FALSE)
      [] kind = "bad" -> Rec(id, 10, NoneVal, k, TRUE)
      [] kind = "toolong" -> Rec(id, 10, NoneVal, TooLong + k, FALSE)
      [] kind = "latehours" -> Rec(id, 10, NoneVal, LateHours + k, FALSE)
      [] OTHER -> Rec(id, 10, NoneVal, k, FALSE)

BronzeInput(src, at, kinds) ==
    [k \in DOMAIN src |->
        BronzeRow(k, 0, src[k], NoneVal, ToJson(Payload(kinds[k], src[k], k)), at[k])]

SilverInit ==
    /\ pc = "silver_idle"
    /\ step = 1
    /\ uuids = 1
    /\ run_id = NoneVal
    /\ run = NoTracker
    /\ exc = NoExc
    /\ raised = NoExc
    /\ sync_runs = <<>>
    /\ \E src \in SourcePatterns : \E at \in SyncedOrders :
          \E kinds \in [DOMAIN src -> PayloadKinds] :
              bronze = [e \in EntityNames |-> BronzeInput(src, at, kinds)]
    /\ dbClock = 3
    /\ tasks = <<>>
    /\ semaphore = MaxConcurrent
    /\ page = 1
    /\ results = <<>>
    /\ pageLog = <<>>
    /\ lastGet = NewTask
    /\ all_resource_ids = <<>>
    /\ writes = [e \in EntityNames |-> <<>>]
    /\ silver = NoSilver
    /\ result = NoResult
    /\ prevSilver = NoSilver
    /\ history = <<>>
    /\ writers = <<>>
    /\ sync_errors = <<>>
    /\ conn = NoConn

silverFrame == <<bronze, writes, clientVars, all_resource_ids, writers, sync_errors,
                 conn>>

\* writer = Silver<Entity>Writer(uuid.uuid4()); writer.run()
WriterRun(e, readOk) ==
    /\ pc = "silver_idle"
    /\ Len(history) < MaxSilverRuns
    /\ LET st == WriterRunState(e, uuids, readOk)
       IN /\ silver' = st.silver
          /\ dbClock' = st.now
          /\ result' = IF st.exc = NoExc THEN RunResult(e, st) ELSE NoResult
          /\ raised' = st.exc
    /\ uuids' = uuids + 1
    /\ prevSilver' = silver
    /\ history' = Append(history, result'.entity)
    /\ UNCHANGED <<pc, step, run_id, run, exc, sync_runs, silverFrame>>

\* bronze_to_silver: the timer fires, sync_run_id = uuid.uuid4().
SilverStart ==
    /\ pc = "silver_idle"
    /\ Len(history) < MaxSilverRuns
    /\ run_id' = uuids
    /\ uuids' = uuids + 1
    /\ step' = 1
    /\ raised' = NoExc
    /\ pc' = "silver_enter"
    /\ UNCHANGED <<run, exc, sync_runs, dbClock, silverFrame, silverVars>>

\* `async with RunTracker("nexudus", entity, "silver", ...) as run:`; when
\* the INSERT of __aenter__ raises, no scope is entered and the error of the
\* store is logged by bronze_to_silver and raised again (the store is as it
\* was before the invocation; the invocations after it are not followed).
SilverEnter(insertOk) ==
    /\ pc = "silver_enter"
    /\ uuids' = uuids + 1
    /\ IF ~insertOk
       THEN /\ raised' = StoreError
            /\ pc' = "silver_raised"
            /\ UNCHANGED <<run, exc, sync_runs>>
       ELSE /\ LET tr == Tracker(uuids, SilverOrder[step], "silver")
               IN /\ sync_runs' = RunInsert(sync_runs, tr, run_id)
                  /\ run' = tr
            /\ exc' = NoExc
            /\ pc' = "silver_body"
            /\ UNCHANGED raised
    /\ UNCHANGED <<step, run_id, dbClock, silverFrame, silverVars>>

\* The body of the scope: writer.run(), then run.rows_written =
\* result.get(...); a tuple has no get (AttributeError).
SilverBody(readOk) ==
    /\ pc = "silver_body"
    /\ LET e == SilverOrder[step]
           st == WriterRunState(e, run_id, readOk)
           res == IF st.exc = NoExc THEN RunResult(e, st) ELSE NoResult
       IN /\ silver' = st.silver
          /\ dbClock' = st.now
          /\ result' = res
          /\ prevSilver' = silver
          /\ history' = Append(history, res.entity)
          /\ IF st.exc # NoExc
             THEN exc' = st.exc /\ UNCHANGED run
             ELSE IF res.isDict
             THEN run' = [run EXCEPT !.rows_written = res.written] /\ exc' = NoExc
             ELSE exc' = Exc("AttributeError", 0) /\ UNCHANGED run
    /\ pc' = "silver_exit"
    /\ UNCHANGED <<step, uuids, run_id, raised, sync_runs, silverFrame>>

\* RunTracker.__aexit__ of the scope; the exception of the body, or the error
\* of a failed UPDATE, is logged by bronze_to_silver and raised again,
\* otherwise the next scope follows.
SilverExit(updateOk) ==
    /\ pc = "silver_exit"
    /\ LET out == AExit(sync_runs, run, exc, updateOk)
       IN /\ sync_runs' = out.sync_runs
          /\ raised' = out.raised
          /\ IF out.raised # NoExc
             THEN pc' = "silver_idle" /\ UNCHANGED step
             ELSE IF step = Len(SilverOrder)
             THEN pc' = "silver_idle" /\ UNCHANGED step
             ELSE pc' = "silver_enter" /\ step' = step + 1
    /\ UNCHANGED <<uuids, run_id, run, exc, dbClock, silverFrame, silverVars>>

SilverNext ==
    \/ \E e \in EntityNames : \E readOk \in BOOLEAN : WriterRun(e, readOk)
    \/ SilverStart
    \/ \E insertOk \in BOOLEAN : SilverEnter(insertOk)
    \/ \E readOk \in BOOLEAN : SilverBody(readOk)
    \/ \E updateOk \in BOOLEAN : SilverExit(updateOk)

SpecSilver == SilverInit /\ [][SilverNext]_vars

(***************************************************************************)
(* SpecOverlap: several run() calls of the Silver Writer of one entity,     *)
(* one after another or overlapping.  Each call loads its bronze rows,      *)
(* then runs the statements of its loop; the statements of the calls        *)
(* interleave, each MERGE (of a row, of one hours row) being one statement  *)
(* of the store.                                                            *)
(***************************************************************************)
MaxOverlap == 2

\* A run() call in progress: the rows still to handle, the hours rows of
\* the current location still to upsert, and the counters.
WriterCall(e, sync_run_id, rows, pending, st, done) ==
    [entity |-> e, sync_run_id |-> sync_run_id, rows |-> rows, pending |-> pending,
     ok |-> st.ok, errors |-> st.errors, hours |-> st.hours, exc |-> st.exc,
     done |-> done]

OverlapOrders == {<<1, 2, 3>>, <<3, 2, 1>>}

\* The payload shapes of the three bronze rows the overlapping calls start
\* from.
OverlapKinds ==
    {<<"good", "good", "good">>, <<"latehours", "latehours", "latehours">>,
     <<"good", "toolong", "latehours">>, <<"toolong", "good", "noid">>,
     <<"bad", "latehours", "good">>, <<"noid", "bad", "toolong">>}

\* The MERGE statements a call sets out to run for its rows: one per row that
\* transforms, and one per hours row that follows it.
RECURSIVE RowStatements(_, _, _)
RowStatements(e, rows, sync_run_id) ==
    IF rows = <<>> THEN 0
    ELSE (IF Transform(e, JsonLoads(Head(rows).raw_json), Head(rows).id, sync_run_id).status
                = "ok"
          THEN 1 + Len(HoursRows(e, Head(rows), sync_run_id))
          ELSE 0)
         + RowStatements(e, Tail(rows), sync_run_id)

\* The most statements the calls explored set out to run, all together (two
\* calls over one location and its seven hours rows).
MaxOverlapStatements == 16

OverlapInit ==
    /\ pc = "overlap"
    /\ step = 1
    /\ uuids = 1
    /\ run_id = NoneVal
    /\ run = NoTracker
    /\ exc = NoExc
    /\ raised = NoExc
    /\ sync_runs = <<>>
    /\ \E src \in SourcePatterns : \E at \in OverlapOrders : \E kinds \in OverlapKinds :
          bronze = [e \in EntityNames |-> BronzeInput(src, at, kinds)]
    /\ dbClock = 3
    /\ tasks = <<>>
    /\ semaphore = MaxConcurrent
    /\ page = 1
    /\ results = <<>>
    /\ pageLog = <<>>
    /\ lastGet = NewTask
    /\ all_resource_ids = <<>>
    /\ writes = [e \in EntityNames |-> <<>>]
    /\ silver = NoSilver
    /\ result = NoResult
    /\ prevSilver = NoSilver
    /\ history = <<>>
    /\ writers = <<>>
    /\ sync_errors = <<>>
    /\ conn = NoConn

overlapFrame == <<pc, step, run_id, run, exc, raised, sync_runs, bronze, writes,
                  clientVars, all_resource_ids, sync_errors, conn>>

\* writer = Silver<Entity>Writer(uuid.uuid4()); run() starts:
\* rows = self._load_latest_bronze()
OverlapStart(e, readOk) ==
    /\ pc = "overlap"
    /\ Len(writers) < MaxOverlap
    /\ writers # <<>> => writers[1].entity = e
    /\ (Len(writers) + 1) * RowStatements(e, LoadLatestBronze(bronze[e]), uuids)
          <= MaxOverlapStatements
    /\ LET st == RunState(silver, dbClock)
       IN writers' = Append(writers,
             IF readOk
             THEN WriterCall(e, uuids, LoadLatestBronze(bronze[e]), <<>>, st, FALSE)
             ELSE WriterCall(e, uuids, <<>>, <<>>, [st EXCEPT !.exc = StoreError], TRUE))
    /\ uuids' = uuids + 1
    /\ UNCHANGED <<silver, result, prevSilver, history, dbClock, overlapFrame>>

\* The next statement of call w: the upsert of the next hours row of the
\* location in hand, or else the first try of the next turn of `for row in
\* rows` (transform and upsert of the row).
OverlapStep(w) ==
    /\ pc = "overlap"
    /\ ~writers[w].done
    /\ writers[w].rows # <<>> \/ writers[w].pending # <<>>
    /\ LET c == writers[w]
           st0 == [RunState(silver, dbClock) EXCEPT
                      !.ok = c.ok, !.errors = c.errors, !.hours = c.hours]
       IN IF c.pending # <<>>
          THEN LET r == UpsertHours(c.pending, st0)
               IN /\ silver' = r.st.silver
                  /\ dbClock' = r.st.now
                  /\ writers' = [writers EXCEPT ![w] =
                        WriterCall(c.entity, c.sync_run_id, c.rows, r.pending, r.st, FALSE)]
          ELSE LET st == UpsertRow(c.entity, Head(c.rows), c.sync_run_id, st0)
               IN /\ silver' = st.silver
                  /\ dbClock' = st.now
                  /\ writers' = [writers EXCEPT ![w] =
                        WriterCall(c.entity, c.sync_run_id, Tail(c.rows),
                                   HoursRows(c.entity, Head(c.rows), c.sync_run_id),
                                   st, st.exc # NoExc)]
    /\ UNCHANGED <<uuids, result, prevSilver, history, overlapFrame>>

\* run() of call w returns its counts.
OverlapReturn(w) ==
    /\ pc = "overlap"
    /\ ~writers[w].done
    /\ writers[w].rows = <<>> /\ writers[w].pending = <<>>
    /\ writers' = [writers EXCEPT ![w].done = TRUE]
    /\ result' = RunResult(writers[w].entity, writers[w])
    /\ history' = Append(history, writers[w].entity)
    /\ UNCHANGED <<uuids, silver, prevSilver, dbClock, overlapFrame>>

OverlapNext ==
    \/ \E e \in EntityNames : \E readOk \in BOOLEAN : OverlapStart(e, readOk)
    \/ \E w \in DOMAIN writers : OverlapStep(w)
    \/ \E w \in DOMAIN writers : OverlapReturn(w)

SpecOverlap == OverlapInit /\ [][OverlapNext]_vars

(***************************************************************************)
(* SpecTracker: one RunTracker scope whose body counts rows and calls      *)
(* log_error, with the INSERT into meta.sync_errors going through or not.  *)
(***************************************************************************)
MaxBodySteps == 2

\* What the body hands to log_error: the natural id and the exception of
\* the record that failed.
LoggedIds == {1, 2}
LoggedErrors == {Exc("KeyError", 0), Exc("TypeError", 0)}

TrackerInit ==
    /\ pc = "scope"
    /\ step = 0
    /\ uuids = 3
    /\ run_id = 1
    /\ \E e \in EntityNames : \E layer \in {"bronze", "silver"} :
          /\ run = Tracker(2, e, layer)
          /\ sync_runs = RunInsert(<<>>, Tracker(2, e, layer), 1)
    /\ exc = NoExc
    /\ raised = NoExc
    /\ bronze = [e \in EntityNames |-> <<>>]
    /\ dbClock = 0
    /\ tasks = <<>>
    /\ semaphore = MaxConcurrent
    /\ page = 1
    /\ results = <<>>
    /\ pageLog = <<>>
    /\ lastGet = NewTask
    /\ all_resource_ids = <<>>
    /\ writes = [e \in EntityNames |-> <<>>]
    /\ silver = NoSilver
    /\ result = NoResult
    /\ prevSilver = NoSilver
    /\ history = <<>>
    /\ writers = <<>>
    /\ sync_errors = <<>>
    /\ conn = NoConn

trackerFrame == <<uuids, run_id, raised, bronze, dbClock, writes, clientVars,
                  all_resource_ids, silver, result, prevSilver, history, writers, conn>>

\* The body handles a record: it is read, and written or skipped.
BodyRecord(written) ==
    /\ pc = "scope"
    /\ step < MaxBodySteps
    /\ step' = step + 1
    /\ run' = IF written
              THEN [run EXCEPT !.rows_read = @ + 1, !.rows_written = @ + 1]
              ELSE [run EXCEPT !.rows_read = @ + 1, !.rows_skipped = @ + 1]
    /\ UNCHANGED <<pc, exc, sync_runs, sync_errors, trackerFrame>>

\* The body calls run.log_error(source_id, error, raw_payload).
LogError(source_id, error, insertOk) ==
    /\ pc = "scope"
    /\ step < MaxBodySteps
    /\ step' = step + 1
    /\ sync_errors' = Append(sync_errors,
                             ErrorRecord(run, source_id, error, ToJson(EmptyRec), insertOk))
    /\ exc' = LogErrorRaises(insertOk)
    /\ pc' = IF LogErrorRaises(insertOk) = NoExc THEN "scope" ELSE "exit"
    /\ UNCHANGED <<run, sync_runs, trackerFrame>>

\* The body ends: it returns, or raises an exception of its own.
BodyEnd(bodyOk) ==
    /\ pc = "scope"
    /\ pc' = "exit"
    /\ exc' = IF bodyOk THEN NoExc ELSE Exc("ValueError", 0)
    /\ UNCHANGED <<step, run, sync_runs, sync_errors, trackerFrame>>

\* RunTracker.__aexit__
TrackerExit(updateOk) ==
    /\ pc = "exit"
    /\ sync_runs' = AExit(sync_runs, run, exc, updateOk).sync_runs
    /\ raised' = AExit(sync_runs, run, exc, updateOk).raised
    /\ pc' = "exited"
    /\ UNCHANGED <<step, uuids, run_id, run, exc, bronze, dbClock, writes, clientVars,
                   all_resource_ids, silverVars>>

TrackerNext ==
    \/ \E written \in BOOLEAN : BodyRecord(written)
    \/ \E source_id \in LoggedIds : \E error \in LoggedErrors : \E insertOk \in BOOLEAN :
          LogError(source_id, error, insertOk)
    \/ \E bodyOk \in BOOLEAN : BodyEnd(bodyOk)
    \/ \E updateOk \in BOOLEAN : TrackerExit(updateOk)

SpecTracker == TrackerInit /\ [][TrackerNext]_vars

(***************************************************************************)
(* SpecFanout: the resource step of the bronze orchestrator, attempt by    *)
(* attempt: asyncio.gather over one get_one call per resource id, all      *)
(* going through the semaphore of the one client.                          *)
(***************************************************************************)
\* The largest resource fetch-list explored, and the number of failed
\* attempts the upstream answers with during one fan-out.
MaxFanout == 4
MaxUpstreamFailures == 2

\* The failed attempts the calls of the fan-out have met so far.
FailedAttempts(task) ==
    IF task.st \in {"sleep429", "backoff"} \/ (task.st = "done" /\ ~task.ok)
    THEN task.attempt
    ELSE task.attempt - 1

UpstreamFailures == SeqSum([k \in 1..Len(tasks) |-> FailedAttempts(tasks[k])])

\* The failures explored in the fan-out: a refused connection, a missing
\* record, a rate limit without Retry-After and an unavailable upstream.
FanoutFailures ==
    {r \in FailureResponses :
        /\ r.header = HeaderAbsent
        /\ r.kind = "ClientConnectorError" \/ (r.kind = "http" /\ r.status \in {404, 429, 503})}

\* What the request of task i meets in the fan-out.
FanoutResponses(i) ==
    IF pc # "gather" THEN {}
    ELSE {r \in OneResponses(all_resource_ids[i][2], 1) :
            \/ r.kind = "http" /\ r.status < 400
            \/ r \in FanoutFailures /\ UpstreamFailures < MaxUpstreamFailures}

FanoutInit ==
    /\ pc = "gather"
    /\ step = 4
    /\ uuids = 3
    /\ run_id = 1
    /\ all_resource_ids \in {[k \in 1..n |-> <<10, 100 + k>>] : n \in 1..MaxFanout}
    /\ run = [Tracker(2, "resources", "bronze") EXCEPT !.rows_read = Len(all_resource_ids)]
    /\ exc = NoExc
    /\ raised = NoExc
    /\ sync_runs = RunInsert(<<>>, Tracker(2, "resources", "bronze"), 1)
    /\ bronze = [e \in EntityNames |-> <<>>]
    /\ dbClock = 0
    /\ tasks = [k \in 1..Len(all_resource_ids) |-> NewTask]
    /\ semaphore = MaxConcurrent
    /\ page = 1
    /\ results = <<>>
    /\ pageLog = <<>>
    /\ lastGet = NewTask
    /\ writes = [e \in EntityNames |-> <<>>]
    /\ silver = NoSilver
    /\ result = NoResult
    /\ prevSilver = NoSilver
    /\ history = <<>>
    /\ writers = <<>>
    /\ sync_errors = <<>>
    /\ conn = NoConn

FanoutNext ==
    \/ \E i \in DOMAIN tasks : Acquire(i)
    \/ \E i \in DOMAIN tasks : \E r \in FanoutResponses(i) : Respond(i, r)
    \/ \E i \in DOMAIN tasks : Wake429(i)
    \/ \E i \in DOMAIN tasks : BackoffDone(i)
    \/ \E blobOk \in BOOLEAN : \E written \in 0..Len(tasks) : GatherDone(blobOk, written)
    \/ \E updateOk \in BOOLEAN : SyncExit(updateOk)

SpecFanout == FanoutInit /\ [][FanoutNext]_vars

(***************************************************************************)
(* SpecFanoutLive: the fan-out on the event loop, over up to one resource  *)
(* id more than the semaphore has slots.  Every request sent is answered   *)
(* (the upstream returns or fails), every sleep ends, a call that waits    *)
(* for a slot takes it once one stays free, and the orchestrator goes on   *)
(* once gather has returned.  MaxLiveFailures is the number of calls the   *)
(* upstream fails; it may fail such a call at every attempt.               *)
(***************************************************************************)
MaxLiveFailures == 1

\* The largest fan-out followed to its end: one call has to wait for a slot.
LiveFanout == MaxConcurrent + 1

LiveInit == FanoutInit /\ Len(all_resource_ids) <= LiveFanout

\* The calls of the fan-out that have met a failed attempt.
FailingCalls == {k \in 1..Len(tasks) : FailedAttempts(tasks[k]) > 0}

\* What the request of task i meets: a record or an empty body at any time;
\* a failure at its first attempt while fewer than MaxLiveFailures calls
\* have met one; and at every later attempt the failure of the attempt
\* before, so that the upstream may fail a call until get gives up.
LiveResponses(i) ==
    IF pc # "gather" THEN {}
    ELSE {r \in OneResponses(all_resource_ids[i][2], 1) :
            \/ r.kind = "http" /\ r.status < 400
            \/ /\ r \in FanoutFailures
               /\ \/ tasks[i].attempt = 1 /\ Cardinality(FailingCalls) < MaxLiveFailures
                  \/ SameFailure(tasks[i], r)}

LiveNext ==
    \/ \E i \in DOMAIN tasks : Acquire(i)
    \/ \E i \in DOMAIN tasks : \E r \in LiveResponses(i) : Respond(i, r)
    \/ \E i \in DOMAIN tasks : Wake429(i)
    \/ \E i \in DOMAIN tasks : BackoffDone(i)
    \/ \E blobOk \in BOOLEAN : \E written \in 0..Len(tasks) : GatherDone(blobOk, written)
    \/ \E updateOk \in BOOLEAN : SyncExit(updateOk)

FanoutFairness ==
    /\ \A i \in 1..LiveFanout :
          WF_vars(/\ i \in DOMAIN tasks
                  /\ \/ Acquire(i)
                     \/ \E r \in LiveResponses(i) : Respond(i, r)
                     \/ Wake429(i)
                     \/ BackoffDone(i))
    /\ WF_vars(\E blobOk \in BOOLEAN : \E written \in 0..Len(tasks) : GatherDone(blobOk, written))
    /\ WF_vars(\E updateOk \in BOOLEAN : SyncExit(updateOk))

SpecFanoutLive == LiveInit /\ [][LiveNext]_vars /\ FanoutFairness

(***************************************************************************)
(* SpecDiscovery: the bronze invocation from the moment get_all has        *)
(* returned the products, over every small list of products: the resource  *)
(* ids are collected, the contracts step runs, the resource step issues    *)
(* its fetches.                                                            *)
(***************************************************************************)
MaxProducts == 3

\* The (FloorPlanBusinessId, ResourceId) values a product can carry: a
\* missing (None) or zero value, or an id.
ProductRefs == {0, 10, 20} \X {NoneVal, 100, 101}

ProductLists ==
    UNION {{[k \in 1..n |-> Rec(k, f[k][1], f[k][2], 1, FALSE)] : f \in [1..n -> ProductRefs]} :
            n \in 0..MaxProducts}

DiscoveryInit ==
    /\ pc = "fetched"
    /\ step = 2
    /\ uuids = 4
    /\ run_id = 1
    /\ run = Tracker(3, "products", "bronze")
    /\ exc = NoExc
    /\ raised = NoExc
    /\ sync_runs = RunInsert(
                     RunUpdate(RunInsert(<<>>, Tracker(2, "locations", "bronze"), 1),
                               [Tracker(2, "locations", "bronze") EXCEPT
                                    !.rows_read = 1, !.rows_written = 1],
                               NoExc),
                     Tracker(3, "products", "bronze"), 1)
    /\ bronze = [e \in EntityNames |->
                   IF e = "locations"
                   THEN BatchUpsert(<<>>, WriterRows(e, 1, UpstreamPage(e, 1, 1)), 0)
                   ELSE <<>>]
    /\ dbClock = 1
    /\ tasks = <<>>
    /\ semaphore = MaxConcurrent
    /\ page = 1
    /\ results \in ProductLists
    /\ pageLog = <<[page |-> 1, n |-> Len(results), more |-> FALSE]>>
    /\ lastGet = Settle(TaskReturn([TaskIssue(NewTask) EXCEPT
                                       !.last = [kind |-> "http", status |-> 200]],
                                   Body(TRUE, results, FALSE, EmptyRec)))
    /\ all_resource_ids = <<>>
    /\ writes = [e \in EntityNames |->
                   IF e = "locations" THEN SourceIds(UpstreamPage(e, 1, 1)) ELSE <<>>]
    /\ silver = NoSilver
    /\ result = NoResult
    /\ prevSilver = NoSilver
    /\ history = <<>>
    /\ writers = <<>>
    /\ sync_errors = <<>>
    /\ conn = NoConn

\* The upstream answers every request of this run at once with what it holds.
DiscoveryPage == Resp("http", 200, HeaderAbsent,
                      Body(TRUE, UpstreamPage(Entity, page, 1), FALSE, EmptyRec))

DiscoveryResource(i) ==
    Resp("http", 200, HeaderAbsent,
         Body(TRUE, <<>>, FALSE, UpstreamResource(all_resource_ids[i][2], 1)))

DiscoveryNext ==
    \/ \E blobOk \in BOOLEAN : \E written \in 0..Len(results) : BodyWrite(blobOk, written)
    \/ \E updateOk \in BOOLEAN : SyncExit(updateOk)
    \/ \E insertOk \in BOOLEAN : SyncEnter(insertOk)
    \/ ResourcesSkip
    \/ \E i \in DOMAIN tasks : Acquire(i)
    \/ \E i \in DOMAIN tasks : pc = "fetch" /\ Respond(i, DiscoveryPage)
    \/ \E i \in DOMAIN tasks : pc = "gather" /\ Respond(i, DiscoveryResource(i))
    \/ PaginateNext

SpecDiscovery == DiscoveryInit /\ [][DiscoveryNext]_vars

(***************************************************************************)
(* Properties of the Run Tracker (checked under Spec).                     *)
(***************************************************************************)
\* The RunTracker scope of the current step is open (entered, not exited).
ScopeOpen == pc \in {"fetch", "fetched", "gather", "exit"}

Terminal == {"success", "failed"}

ScopeExits == pc = "exit" /\ pc' # "exit"

\* What the exit of a scope leaves when its UPDATE went through: the Run
\* Record rec holds the counters of the tracker; if the body raised, rec is
\* failed with a non-null error_message (the text of the exception) and that
\* same exception leaves the scope to its caller; if the body did not raise,
\* rec is success with a null error_message and nothing is raised.
ExitedAsStated(rec) ==
    /\ rec.rows_read = run.rows_read
    /\ rec.rows_written = run.rows_written
    /\ rec.rows_skipped = run.rows_skipped
    /\ IF exc # NoExc
       THEN /\ rec.status = "failed"
            /\ rec.error_message # NullMsg
            /\ rec.error_message = StrOf(exc)
            /\ raised' = exc
            /\ pc' = "raised"
       ELSE /\ rec.status = "success"
            /\ rec.error_message = NullMsg
            /\ raised' = NoExc

HasTerminalRecord(e) ==
    \E id \in DOMAIN sync_runs :
        sync_runs[id].entity = e /\ sync_runs[id].status \in Terminal

StepSucceeded(e) ==
    \E id \in DOMAIN sync_runs :
        sync_runs[id].entity = e /\ sync_runs[id].status = "success"

\* C7 (as stated): when an invocation is over, every entity has a Run Record
\* in a terminal status even if another entity's step failed; only the
\* resources step may be missing, when products did not succeed or found no
\* resource ids.
C7_SiblingsStillRun ==
    (pc \in {"returned", "raised"} /\ run_id # NoneVal) =>
        \A e \in EntityNames :
            \/ HasTerminalRecord(e)
            \/ e = "resources" /\ (~StepSucceeded("products") \/ all_resource_ids = <<>>)

\* The get calls that have finished and are still held by their caller.
FinishedGets ==
    {g \in {lastGet} \cup {tasks[i] : i \in DOMAIN tasks} : g.st = "done"}

\* The last attempt met a transient failure: HTTP 429/500/502/503/504, a
\* connection error or a timeout.
TransientLast(g) ==
    \/ g.last.kind \in {"ServerConnectionError", "ClientConnectorError", "TimeoutError"}
    \/ g.last.kind = "http" /\ g.last.status \in RetryableStatuses

\* C9 (as stated): a get call never makes more than 5 attempts, and a call
\* that ends on a transient failure has made all 5 of them.
C9_TransientRetriedToCeiling ==
    \A g \in FinishedGets :
        /\ g.attempt <= StopAfterAttempt
        /\ (~g.ok /\ TransientLast(g)) => g.attempt = StopAfterAttempt

(***************************************************************************)
(* Properties of the client (checked under SpecClient).                    *)
(***************************************************************************)
RECURSIVE LoggedRecords(_)
LoggedRecords(log) ==
    IF log = <<>> THEN <<>>
    ELSE LoggedRecords(SubSeq(log, 1, Len(log) - 1))
         \o (IF log[Len(log)].n = 0 THEN <<>>
             ELSE UpstreamPage(Entity, log[Len(log)].page, 1))

\* C8: paginate requests pages 1, 2, 3, ... one at a time and in order; it
\* asks for a further page only while every page so far had records and
\* HasNextPage true, and it ends on the first page that is empty or has
\* HasNextPage false, returning the records of the pages before it (and of
\* that page).  When page 3 is empty although HasNextPage stays true, exactly
\* 3 pages are requested and the records of pages 1 and 2 are returned.
C8_PaginationStops ==
    /\ Len(tasks) <= 1
    /\ \A k \in 1..Len(pageLog) : pageLog[k].page = k
    /\ \A k \in 1..(Len(pageLog) - 1) : pageLog[k].n > 0 /\ pageLog[k].more
    /\ pc = "fetch" =>
          /\ page = Len(pageLog) + 1
          /\ \A k \in 1..Len(pageLog) : pageLog[k].n > 0 /\ pageLog[k].more
    /\ pc = "fetched" =>
          /\ pageLog # <<>>
          /\ pageLog[Len(pageLog)].n = 0 \/ ~pageLog[Len(pageLog)].more
          /\ page = Len(pageLog)
          /\ results = LoggedRecords(pageLog)
    /\ (Len(pageLog) >= 3 /\ pageLog[3].n = 0) =>
          /\ Len(pageLog) = 3
          /\ pc = "fetched"
          /\ results = UpstreamPage(Entity, 1, 1) \o UpstreamPage(Entity, 2, 1)

\* HasNextPage true on pages 1, 2 and 3, page 3 empty: get_all has returned.
C8_Witness ==
    /\ pc = "fetched"
    /\ Len(pageLog) = 3
    /\ pageLog[1].more /\ pageLog[2].more /\ pageLog[3].more
    /\ pageLog[3].n = 0
    /\ results = UpstreamPage(Entity, 1, 1) \o UpstreamPage(Entity, 2, 1)

\* The attempt numbered g.attempt has been issued at g.at.
Issued(g) == g.st \in {"inflight", "sleep429", "backoff", "done"} /\ g.at # NoneVal

Payloads == {r.body : r \in {x \in ListResponses(Entity, page, 1) : x.status = 200}}

Count(seq, x) == Cardinality({k \in 1..Len(seq) : seq[k] = x})

RowsOf(table, source_id) ==
    Cardinality({k \in 1..Len(table) : table[k].source_id = source_id})

\* C3 (as stated): the bronze tier is append-only, every record written adds
\* a row: a table holds, for each source id, as many rows as records with
\* that id were written to it.
C3_AppendOnly ==
    \A e \in EntityNames :
        \A k \in 1..Len(writes[e]) :
            RowsOf(bronze[e], writes[e][k]) = Count(writes[e], writes[e][k])

(***************************************************************************)
(* Properties of the Silver Writers (checked under SpecSilver).            *)
(***************************************************************************)
HasRun(e) == \E k \in 1..Len(history) : history[k] = e

SourceIdsIn(table) == {table[k].source_id : k \in 1..Len(table)} \ {NoneVal}

\* The bronze row of a source id with the greatest synced_at.
LatestRow(table, source_id) ==
    CHOOSE b \in {table[k] : k \in 1..Len(table)} :
        /\ b.source_id = source_id
        /\ \A k \in 1..Len(table) :
              table[k].source_id = source_id => table[k].synced_at <= b.synced_at

\* The writer of e upserts the transform of bronze row b.
Upserted(e, b) ==
    LET t == Transform(e, JsonLoads(b.raw_json), b.id, 0)
    IN /\ t.status = "ok"
       /\ ~(e = "products" /\ t.row.location_source_id \in ExcludedSourceIds)
       /\ ~StoreRejects(t.row)

SilverRowsOf(e, source_id) ==
    {k \in 1..Len(silver[e]) : silver[e][k].source_id = source_id}

\* C4: once the Silver Writer of an entity has run, for every source id whose
\* latest bronze row (greatest synced_at) transforms, the silver table holds
\* exactly one row for that id, and it carries the bronze_id and the fields
\* of that latest row, never those of an older row; a run handles at most one
\* bronze row per source id.
C4_LatestWins ==
    /\ \A e \in EntityNames : HasRun(e) =>
          \A sid \in SourceIdsIn(bronze[e]) :
              LET b == LatestRow(bronze[e], sid)
                  raw == JsonLoads(b.raw_json)
              IN Upserted(e, b) =>
                    /\ Cardinality(SilverRowsOf(e, raw.Id)) = 1
                    /\ \A k \in SilverRowsOf(e, raw.Id) :
                          /\ silver[e][k].bronze_id = b.id
                          /\ silver[e][k].fields = raw.ver
    /\ result.entity # "none" =>
          result.written <= Cardinality(SourceIdsIn(bronze[result.entity]))

\* A source id has an older row with a higher bronze id than its latest row,
\* and the silver row carries the latest row.
C4_Witness ==
    \E e \in EntityNames :
        /\ HasRun(e)
        /\ \E sid \in SourceIdsIn(bronze[e]) :
              LET b == LatestRow(bronze[e], sid)
              IN /\ Upserted(e, b)
                 /\ \E j \in 1..Len(bronze[e]) :
                       /\ bronze[e][j].source_id = sid
                       /\ bronze[e][j].id > b.id
                       /\ Upserted(e, bronze[e][j])
                 /\ \E k \in SilverRowsOf(e, sid) : silver[e][k].bronze_id = b.id

\* The tables a Silver Writer writes.
TablesOf(e) == IF e = "locations" THEN {"locations", "location_hours"} ELSE {e}

\* The latest two runs were of the same writer (bronze does not change).
RanTwice(e) ==
    /\ Len(history) >= 2
    /\ history[Len(history)] = e
    /\ history[Len(history) - 1] = e

\* The natural id of a silver row: source_id, and for an hours row (which
\* has no source_id) the location and the day.
IsHoursRow(row) == "day_of_week" \in DOMAIN row
NaturalId(row) ==
    IF IsHoursRow(row) THEN <<row.location_source_id, row.day_of_week>>
    ELSE <<row.source_id>>

\* A silver table without its sync_run_id and last_synced_at columns.
Core(table) ==
    [k \in 1..Len(table) |->
        IF IsHoursRow(table[k])
        THEN [location_source_id |-> table[k].location_source_id,
              day_of_week |-> table[k].day_of_week, fields |-> table[k].fields]
        ELSE [source_id |-> table[k].source_id, bronze_id |-> table[k].bronze_id,
              location_source_id |-> table[k].location_source_id,
              fields |-> table[k].fields]]

OnePerSourceId(table) ==
    \A j, k \in 1..Len(table) : NaturalId(table[j]) = NaturalId(table[k]) => j = k

\* C5 (as stated): after the second of two runs in a row of a Silver Writer
\* its tables hold the same rows, one per source id, with every column value
\* as it was after the first run.
C5_IdenticalOnRerun ==
    \A e \in EntityNames : RanTwice(e) =>
        \A tb \in TablesOf(e) :
            /\ OnePerSourceId(silver[tb])
            /\ silver[tb] = prevSilver[tb]

\* C5 (amended): after the second of two runs in a row of a Silver Writer its
\* tables hold the same rows, one per source id, with every column value as
\* it was after the first run except sync_run_id and last_synced_at, which
\* the second run rewrites.
C5_IdenticalButLineageOnRerun ==
    \A e \in EntityNames : RanTwice(e) =>
        \A tb \in TablesOf(e) :
            /\ OnePerSourceId(silver[tb])
            /\ Len(silver[tb]) = Len(prevSilver[tb])
            /\ Core(silver[tb]) = Core(prevSilver[tb])

\* A writer ran twice over rows it upserts; the second run left its own
\* sync_run_id and a later last_synced_at on a row.
C5_Witness ==
    \E e \in EntityNames :
        /\ RanTwice(e)
        /\ silver[e] # <<>>
        /\ Core(silver[e]) = Core(prevSilver[e])
        /\ silver[e][1].sync_run_id # prevSilver[e][1].sync_run_id
        /\ silver[e][1].last_synced_at > prevSilver[e][1].last_synced_at

\* The latest bronze rows of the writer that ran last: exactly one lacks its
\* Id, every other one is well formed, accepted by the store and not excluded.
OneMalformed(e) ==
    LET rows == LoadLatestBronze(bronze[e])
        noid == {k \in 1..Len(rows) : JsonLoads(rows[k].raw_json).Id = NoneVal}
    IN /\ Cardinality(noid) = 1
       /\ \A k \in (1..Len(rows)) \ noid :
             /\ ~JsonLoads(rows[k].raw_json).bad
             /\ JsonLoads(rows[k].raw_json).ver <= TooLong
             /\ JsonLoads(rows[k].raw_json).Id \notin ExcludedSourceIds

\* C6 (as stated): when exactly one of the N latest bronze rows is malformed,
\* run() of any Silver Writer reports written = N-1 and errors = 1.
C6_PartialFailureCounted ==
    (result.entity # "none" /\ OneMalformed(result.entity)) =>
        /\ result.written = Len(LoadLatestBronze(bronze[result.entity])) - 1
        /\ result.errors = 1

(***************************************************************************)
(* Properties of the fan-out (checked under SpecFanout).                   *)
(***************************************************************************)
\* The get calls whose request is in flight: sent and not yet left, the
\* Retry-After sleep inside `async with session.get(...)` included.
InFlight == {i \in DOMAIN tasks : tasks[i].st \in {"inflight", "sleep429"}}

\* C11: at every moment the number of HTTP requests in flight through the
\* one client is at most max_concurrent (3), however many get_one calls the
\* fan-out runs concurrently; the free slots of the semaphore are exactly
\* those not held by a request in flight.
C11_InFlightAtMostMaxConcurrent ==
    /\ Cardinality(InFlight) <= MaxConcurrent
    /\ semaphore = MaxConcurrent - Cardinality(InFlight)

\* More calls than slots: every slot is taken (one of them by a retried
\* attempt) and a further call waits at the semaphore.
C11_Witness ==
    /\ pc = "gather"
    /\ Len(tasks) > MaxConcurrent
    /\ Cardinality(InFlight) = MaxConcurrent
    /\ semaphore = 0
    /\ \E i \in DOMAIN tasks : tasks[i].st = "queued"
    /\ \E i \in InFlight : tasks[i].attempt > 1

\* The latest attempt of the call was answered with HTTP 404.
Met404(task) == task.last.kind = "http" /\ task.last.status = 404

\* C12: when the upstream answers 404, get_one ends at that attempt (the 404
\* is not retried) and returns "record absent" without raising; a call that
\* failed in any other way raises the exception get ended with.
C12_AbsentOn404ElsePropagates ==
    \A i \in DOMAIN tasks :
        LET g == tasks[i]
        IN /\ Met404(g) => g.st = "done" /\ GetOneAbsent(g) /\ ~GetOneRaised(g)
           /\ (g.st = "done" /\ ~g.ok /\ ~Met404(g)) =>
                 GetOneRaised(g) /\ ~GetOneAbsent(g) /\ g.exc # NoExc

\* One call answered 404 on its first attempt, another failed otherwise.
C12_Witness ==
    /\ \E i \in DOMAIN tasks :
          Met404(tasks[i]) /\ tasks[i].attempt = 1 /\ GetOneAbsent(tasks[i])
    /\ \E i \in DOMAIN tasks : GetOneRaised(tasks[i])

(***************************************************************************)
(* Properties of the resource discovery (checked under SpecDiscovery).     *)
(***************************************************************************)
\* The products written to bronze by the products step, as fetched.
FetchedProducts ==
    [k \in 1..Len(bronze["products"]) |-> JsonLoads(bronze["products"][k].raw_json)]

\* The (location id, resource id) pairs referenced by at least one product.
Referenced ==
    {<<FetchedProducts[k].Loc, FetchedProducts[k].Res>> :
        k \in {j \in 1..Len(FetchedProducts) :
                  Truthy(FetchedProducts[j].Res) /\ Truthy(FetchedProducts[j].Loc)}}

\* C13: the resource fetch-list holds exactly the (location id, resource id)
\* pairs referenced by at least one fetched product, each once, the entries
\* of one location next to each other; a product without a resource id or
\* a location id adds nothing; and the resource step runs one single-record
\* fetch per entry of the list.  A products step that raised (the snapshot
\* or a bronze write failed) has built no list.
C13_FetchListIsReferencedPairsOnce ==
    /\ IF step = 2 /\ exc # NoExc
       THEN all_resource_ids = <<>>
       ELSE {all_resource_ids[k] : k \in 1..Len(all_resource_ids)} = Referenced
    /\ \A j, k \in 1..Len(all_resource_ids) :
            all_resource_ids[j] = all_resource_ids[k] => j = k
    /\ \A j, k, l \in 1..Len(all_resource_ids) :
            (j < k /\ k < l /\ all_resource_ids[j][1] = all_resource_ids[l][1])
                => all_resource_ids[k][1] = all_resource_ids[j][1]
    /\ pc = "gather" => Len(tasks) = Len(all_resource_ids)
    /\ (step = 4 /\ pc # "gather") => tasks = <<>>

\* Two products reference the same pair, a third lacks a reference, and the
\* fetch of the one entry has been issued and answered.
C13_Witness ==
    /\ pc = "gather"
    /\ Len(FetchedProducts) = 3
    /\ Cardinality(Referenced) = 1
    /\ \E j, k \in 1..Len(FetchedProducts) :
          /\ j # k
          /\ Truthy(FetchedProducts[j].Res) /\ Truthy(FetchedProducts[j].Loc)
          /\ FetchedProducts[j].Res = FetchedProducts[k].Res
          /\ FetchedProducts[j].Loc = FetchedProducts[k].Loc
    /\ \E k \in 1..Len(FetchedProducts) : ~Truthy(FetchedProducts[k].Res)
    /\ Len(tasks) = 1 /\ tasks[1].st = "done" /\ tasks[1].ok

(***************************************************************************)
(* Properties of the sequencing of the bronze phase (checked under Spec).  *)
(***************************************************************************)
\* The place of an entity in the order the bronze phase is to pull them.
StepIndex(e) ==
    CASE e = "locations" -> 1
      [] e = "products" -> 2
      [] e = "contracts" -> 3
      [] e = "resources" -> 4
      [] e = "extra_services" -> 5
      [] OTHER -> 0

\* C14: the entity steps of the bronze phase run one after another in the
\* order locations, products, contracts, resources, extra-services: when a
\* Run Record exists, every Run Record created before it is terminal and
\* belongs to an earlier step, and the resource fetches exist only once
\* the Run Record of the products step is success.
C14_StepsStrictlyInOrder ==
    /\ \A a, b \in DOMAIN sync_runs :
          a < b => /\ sync_runs[a].status \in Terminal
                   /\ StepIndex(sync_runs[a].entity) < StepIndex(sync_runs[b].entity)
    /\ (pc = "gather" \/ \E a \in DOMAIN sync_runs : sync_runs[a].entity = "resources")
          => \E a \in DOMAIN sync_runs :
                sync_runs[a].entity = "products" /\ sync_runs[a].status = "success"

\* The invocation has returned after all five steps, the resource fetches
\* included.
C14_Witness ==
    /\ pc = "returned"
    /\ Cardinality(DOMAIN sync_runs) = Len(Entities)
    /\ \A a \in DOMAIN sync_runs : sync_runs[a].status = "success"
    /\ \E a \in DOMAIN sync_runs :
          sync_runs[a].entity = "resources" /\ sync_runs[a].rows_written > 0

(***************************************************************************)
(* Properties of the resource step (checked under SpecFanout).             *)
(***************************************************************************)
\* The calls of the fan-out that returned a record.
Fetched == {k \in DOMAIN tasks : tasks[k].ok /\ tasks[k].body.rec # EmptyRec}

\* C15: the resource step awaits all its fetches together; a fetch that
\* failed is one item of the results, counts one in rows_skipped and is not
\* raised out of the step (the step raises only what the snapshot or the
\* store raised), so the records of the fetches that succeeded are written
\* to bronze and, the snapshot and the writes having gone through, the Run
\* Record of the step ends success with those counters.
C15_FailedFetchSkippedNotRaised ==
    /\ (pc = "exit" /\ step = 4) =>
          /\ \A k \in DOMAIN tasks : tasks[k].st = "done"
          /\ run.rows_skipped = Cardinality({k \in DOMAIN tasks : GetOneRaised(tasks[k])})
          /\ exc \in {NoExc, Exc("AzureError", 0), StoreError}
          /\ exc = NoExc =>
                /\ run.rows_written = Cardinality(Fetched)
                /\ \A k \in Fetched :
                      \E j \in 1..Len(bronze["resources"]) :
                          /\ bronze["resources"][j].source_id = tasks[k].body.rec.Id
                          /\ bronze["resources"][j].raw_json = ToJson(tasks[k].body.rec)
                          /\ bronze["resources"][j].location_id = all_resource_ids[k][1]
    /\ (pc = "enter" /\ step = 5) =>
          /\ sync_runs[run.run_id].status = "success"
          /\ sync_runs[run.run_id].rows_skipped = run.rows_skipped
          /\ sync_runs[run.run_id].rows_written = run.rows_written
    /\ raised \in {NoExc, Exc("AzureError", 0), StoreError}

\* Several fetches were in the batch; one failed, another returned a record
\* that has been written, and the step is about to end success.
C15_Witness ==
    /\ pc = "exit" /\ step = 4
    /\ exc = NoExc
    /\ Len(tasks) >= 3
    /\ run.rows_skipped = 1
    /\ run.rows_written >= 1
    /\ \E k \in DOMAIN tasks : GetOneRaised(tasks[k]) /\ tasks[k].attempt > 1
    /\ Len(bronze["resources"]) = run.rows_written

(***************************************************************************)
(* Properties of overlapping silver runs (checked under SpecOverlap).      *)
(***************************************************************************)
\* C16: after any sequence of silver runs of an entity, overlapping ones
\* included, every silver table holds at most one row per natural id, and
\* once a run has returned exactly one for every natural id whose latest
\* bronze row transforms and is accepted by the store: an upsert of an id
\* that is present overwrites its row, only an id not yet present adds one.
C16_OneRowPerNaturalId ==
    /\ \A tb \in SilverTables : OnePerSourceId(silver[tb])
    /\ \A e \in EntityNames :
          Len(silver[e]) <= Cardinality(SourceIdsIn(bronze[e]))
    /\ \A w \in DOMAIN writers :
          (writers[w].done /\ writers[w].exc = NoExc) =>
              \A sid \in SourceIdsIn(bronze[writers[w].entity]) :
                  LET b == LatestRow(bronze[writers[w].entity], sid)
                  IN Upserted(writers[w].entity, b) =>
                        Cardinality(SilverRowsOf(writers[w].entity,
                                                 JsonLoads(b.raw_json).Id)) = 1

\* Two run() calls of one writer overlap: neither has returned, each has
\* upserted the same natural id, and the table holds one row.
C16_Witness ==
    /\ Len(writers) = 2
    /\ ~writers[1].done /\ ~writers[2].done
    /\ writers[1].ok = 1 /\ writers[2].ok = 1
    /\ Len(writers[1].rows) = Len(writers[2].rows)
    /\ Len(silver[writers[1].entity]) = 1
    /\ silver[writers[1].entity][1].sync_run_id \in
          {writers[1].sync_run_id, writers[2].sync_run_id}

(***************************************************************************)
(* Properties of log_error (checked under SpecTracker).                    *)
(***************************************************************************)
\* The Error Records meta.sync_errors holds.
StoredErrors == SelectSeq(sync_errors, LAMBDA r : r.stored)

\* C17: log_error never raises to its caller: whether its INSERT goes
\* through or fails, the step that calls it leaves the counters of the run
\* and its Run Record as they were, raises nothing, and the scope goes on;
\* a failed INSERT adds no Error Record.
C17_LogErrorNeverRaises ==
    [][sync_errors' # sync_errors =>
          /\ run' = run
          /\ sync_runs' = sync_runs
          /\ exc' = NoExc
          /\ pc' = pc
          /\ Len(SelectSeq(sync_errors', LAMBDA r : r.stored))
                = Len(StoredErrors)
                  + (IF sync_errors'[Len(sync_errors')].stored THEN 1 ELSE 0)]_vars

\* A log_error whose INSERT failed was followed by a counted record, and the
\* scope ended success with its counters.
C17_Witness ==
    /\ pc = "exited"
    /\ Len(sync_errors) = 1
    /\ ~sync_errors[1].stored
    /\ StoredErrors = <<>>
    /\ run.rows_written = 1
    /\ sync_runs[run.run_id].status = "success"
    /\ sync_runs[run.run_id].rows_written = 1
    /\ raised = NoExc

(***************************************************************************)
(* Properties of the error bookkeeping of the Silver Writers (checked      *)
(* under SpecSilver).                                                      *)
(***************************************************************************)
\* The bronze rows the run() that returned last had selected.
SelectedRows == LoadLatestBronze(bronze[result.entity])

\* The transformer of the writer raises on bronze row b.
TransformFails(e, b) == Transform(e, JsonLoads(b.raw_json), b.id, 0).status = "raise"

\* C18 (as stated): once run() of a Silver Writer has returned, every
\* selected row whose transformation raised has an Error Record of that
\* entity with its raw payload in meta.sync_errors.
C18_TransformFailureLogged ==
    result.entity # "none" =>
        \A k \in 1..Len(SelectedRows) :
            TransformFails(result.entity, SelectedRows[k]) =>
                \E j \in 1..Len(StoredErrors) :
                    /\ StoredErrors[j].entity = result.entity
                    /\ StoredErrors[j].raw_payload = SelectedRows[k].raw_json

\* The selected rows of the run() that returned last which were not
\* upserted because their transform or their upsert raised.
FailedRecords ==
    Cardinality({k \in 1..Len(SelectedRows) :
        LET t == Transform(result.entity, JsonLoads(SelectedRows[k].raw_json),
                           SelectedRows[k].id, 0)
        IN \/ t.status = "raise"
           \/ /\ t.status = "ok"
              /\ ~(result.entity = "products"
                    /\ t.row.location_source_id \in ExcludedSourceIds)
              /\ StoreRejects(t.row)})

\* The scope of bronze_to_silver that ran last has exited and its writer
\* had returned a result.
SilverScopeDone ==
    /\ pc \in {"silver_idle", "silver_enter"}
    /\ run.layer = "silver"
    /\ run.run_id \in DOMAIN sync_runs
    /\ sync_runs[run.run_id].status \in Terminal
    /\ result.entity = run.entity
    /\ history # <<>> /\ history[Len(history)] = run.entity

\* C19 (as stated): the Run Record of a silver entity run whose writer
\* isolated e failed records ends success with rows_skipped = e and
\* rows_written = the number of rows upserted.
C19_FailuresPersistedAsSkipped ==
    SilverScopeDone =>
        /\ sync_runs[run.run_id].status = "success"
        /\ sync_runs[run.run_id].rows_skipped = FailedRecords
        /\ sync_runs[run.run_id].rows_written = result.written + result.hours

\* The store refused the upsert of a selected row of the run() that
\* returned last.
UpsertRefused ==
    \E k \in 1..Len(SelectedRows) :
        LET t == Transform(result.entity, JsonLoads(SelectedRows[k].raw_json),
                           SelectedRows[k].id, 0)
        IN /\ t.status = "ok"
           /\ ~(result.entity = "products"
                 /\ t.row.location_source_id \in ExcludedSourceIds)
           /\ StoreRejects(t.row)

\* C20 (as stated): a failure to read bronze and a failure of the upsert
\* statement of a row are fatal to a silver run: run() raises (it returns
\* no counts), the failure is not counted as a per-record error.
C20_StoreFailureIsFatal ==
    /\ (pc = "silver_idle" /\ history # <<>> /\ history[Len(history)] = "none")
          => raised = StoreError
    /\ (history # <<>> /\ history[Len(history)] = result.entity /\ result.entity # "none")
          => ~UpsertRefused

(***************************************************************************)
(* Properties of the Entity Transformers as the Silver Writers call them   *)
(* (checked under SpecSilver).                                             *)
(***************************************************************************)
\* C21 (as stated): every Entity Transformer is total over payloads: on
\* every selected bronze row of a run() that returned, whatever fields its
\* payload lacks or has malformed, the transformer returned a row or
\* 'excluded' and did not raise.
C21_TransformersTotal ==
    result.entity # "none" =>
        \A k \in 1..Len(SelectedRows) :
            Transform(result.entity, JsonLoads(SelectedRows[k].raw_json),
                      SelectedRows[k].id, 0).status \in {"ok", "none"}

(***************************************************************************)
(* Properties of the locations writer and its two transforms (checked      *)
(* under SpecSilver).                                                      *)
(***************************************************************************)
\* The payloads of the bronze location rows.
LocationPayloads ==
    {JsonLoads(bronze["locations"][k].raw_json) : k \in 1..Len(bronze["locations"])}

\* The rows of a silver table.
SilverTable(table) == {silver[table][k] : k \in 1..Len(silver[table])}

\* C22: transform_location returns None exactly when
\* transform_location_hours does, and every silver location-hours row
\* belongs to a non-excluded location that has a silver location row,
\* upserted in the same pass just before the hours rows (day d being the
\* d-th statement after it).
C22_HoursFollowLocations ==
    /\ \A raw \in LocationPayloads :
          (transform_location(raw, 1, 0).status = "none")
              <=> (transform_location_hours(raw).status = "none")
    /\ \A h \in SilverTable("location_hours") :
          /\ h.location_source_id \notin ExcludedSourceIds
          /\ \E l \in SilverTable("locations") :
                /\ l.source_id = h.location_source_id
                /\ l.last_synced_at + h.day_of_week = h.last_synced_at

\* A locations run has returned over a bronze tier that holds an excluded
\* location and another one: the other one has its hours rows, the excluded
\* one has neither row.
C22_Witness ==
    /\ result.entity = "locations"
    /\ result.hours > 0
    /\ \E raw \in LocationPayloads : raw.Id \in ExcludedSourceIds
    /\ SilverTable("location_hours") # {}
    /\ \A l \in SilverTable("locations") : l.source_id \notin ExcludedSourceIds

(***************************************************************************)
(* Lineage of the bronze rows (checked under Spec).                        *)
(***************************************************************************)
\* C23 (as stated): the sync_run_id stamped on every bronze row is the id
\* of a Run Record, the one of the entity step that wrote the row.
C23_BronzeRowsJoinRunRecord ==
    \A e \in DOMAIN bronze :
        \A k \in 1..Len(bronze[e]) :
            /\ bronze[e][k].sync_run_id \in DOMAIN sync_runs
            /\ sync_runs[bronze[e][k].sync_run_id].entity = e

(***************************************************************************)
(* SpecSql: SQLClient.execute_non_query and insert_and_get_id, statement   *)
(* after statement, with _open_connection, cursor.execute and conn.commit  *)
(* each going through or raising.                                          *)
(***************************************************************************)
MaxStatements == 3

\* What _open_connection raises: a login timeout, another OperationalError
\* (08001: the server was not found), an exception of another class.
ConnectFailures ==
    {LoginTimeout,
     SqlError("pyodbc.OperationalError", "08001"),
     SqlError("pyodbc.InterfaceError", "28000")}
ExecuteFailure == SqlError("pyodbc.ProgrammingError", "42000")
CommitFailure == SqlError("pyodbc.Error", "HY000")

SqlInit ==
    /\ pc = "sql"
    /\ step = 1
    /\ uuids = 1
    /\ run_id = NoneVal
    /\ run = NoTracker
    /\ exc = NoExc
    /\ raised = NoExc
    /\ sync_runs = <<>>
    /\ bronze = [e \in EntityNames |-> <<>>]
    /\ dbClock = 0
    /\ tasks = <<>>
    /\ semaphore = MaxConcurrent
    /\ page = 1
    /\ results = <<>>
    /\ pageLog = <<>>
    /\ lastGet = NewTask
    /\ all_resource_ids = <<>>
    /\ writes = [e \in EntityNames |-> <<>>]
    /\ silver = NoSilver
    /\ result = NoResult
    /\ prevSilver = NoSilver
    /\ history = <<>>
    /\ writers = <<>>
    /\ sync_errors = <<>>
    /\ conn = NoConn

sqlFrame == <<bronzeVars, storeVars, clientVars, silver, result, prevSilver, history,
              writers, sync_errors>>

\* The statement is over: its outcome is kept, the client is idle again.
StatementEnd(st) == [now |-> Statement("idle", 0), done |-> Append(conn.done, st)]

\* execute_non_query(query, params): with self.get_connection() as conn;
\* the loop starts with attempt = 1.
ExecuteNonQuery ==
    /\ pc = "sql"
    /\ conn.now.at = "idle"
    /\ Len(conn.done) < MaxStatements
    /\ conn' = [conn EXCEPT !.now = Statement("connect", 1)]
    /\ UNCHANGED sqlFrame

\* insert_and_get_id(query, params): with self.get_connection() as conn;
\* the body executes the INSERT and then SELECT @@IDENTITY in the one
\* transaction.
InsertAndGetId ==
    /\ pc = "sql"
    /\ conn.now.at = "idle"
    /\ Len(conn.done) < MaxStatements
    /\ conn' = [conn EXCEPT !.now = [Statement("connect", 1) EXCEPT !.calls = 2]]
    /\ UNCHANGED sqlFrame

\* One turn of `for attempt in range(1, retries + 1)`: _open_connection
\* returns (break), or raises e: a login timeout with attempts left is slept
\* on and the loop goes on, anything else leaves get_connection (conn is
\* None: nothing to roll back or close).
OpenConnection(e) ==
    /\ pc = "sql"
    /\ conn.now.at = "connect"
    /\ LET st == conn.now
       IN IF e = NoSqlError
          THEN conn' = [conn EXCEPT !.now = [st EXCEPT !.at = "yielded", !.opened = TRUE]]
          ELSE IF RetriesConnect(e, st.attempt)
          THEN conn' = [conn EXCEPT !.now =
                          [st EXCEPT !.failures = Append(@, e),
                                     !.slept = @ + RetryDelay,
                                     !.attempt = @ + 1]]
          ELSE conn' = StatementEnd([st EXCEPT !.failures = Append(@, e),
                                               !.raised = e,
                                               !.at = "raised"])
    /\ UNCHANGED sqlFrame

\* The body of the with block: the next cursor.execute returns (the body
\* ends after the last one), or raises e into the generator at yield:
\* except Exception: conn.rollback(); raise; finally: conn.close().
CursorExecute(e) ==
    /\ pc = "sql"
    /\ conn.now.at = "yielded"
    /\ LET st == [conn.now EXCEPT !.executes = @ + 1]
       IN IF e = NoSqlError
          THEN conn' = [conn EXCEPT !.now =
                          IF st.executes < st.calls THEN st
                          ELSE [st EXCEPT !.at = "commit", !.executed = TRUE]]
          ELSE conn' = StatementEnd([st EXCEPT !.rolled_back = TRUE,
                                               !.closed = TRUE,
                                               !.raised = e,
                                               !.at = "raised"])
    /\ UNCHANGED sqlFrame

\* The with block is left normally: conn.commit() after yield, then finally:
\* conn.close(); a commit that raises is rolled back and raised as well.
Commit(e) ==
    /\ pc = "sql"
    /\ conn.now.at = "commit"
    /\ LET st == conn.now
       IN IF e = NoSqlError
          THEN conn' = StatementEnd([st EXCEPT !.committed = TRUE,
                                               !.closed = TRUE,
                                               !.at = "returned"])
          ELSE conn' = StatementEnd([st EXCEPT !.rolled_back = TRUE,
                                               !.closed = TRUE,
                                               !.raised = e,
                                               !.at = "raised"])
    /\ UNCHANGED sqlFrame

SqlNext ==
    \/ ExecuteNonQuery
    \/ InsertAndGetId
    \/ \E e \in ConnectFailures \cup {NoSqlError} : OpenConnection(e)
    \/ \E e \in {NoSqlError, ExecuteFailure} : CursorExecute(e)
    \/ \E e \in {NoSqlError, CommitFailure} : Commit(e)

SpecSql == SqlInit /\ [][SqlNext]_vars

(***************************************************************************)
(* Properties of the store connection (checked under SpecSql).             *)
(***************************************************************************)
\* The _open_connection calls of a finished statement.
Opens(st) == Len(st.failures) + (IF st.opened THEN 1 ELSE 0)

\* C24: a statement opens a connection at most 3 times; every failure
\* before the last attempt was a login timeout followed by the fixed delay;
\* a connection failure that propagated was another failure or the login
\* timeout of the last attempt; no cursor.execute of the body is made twice
\* and none follows one that failed; an error of the execution is rolled
\* back, the connection closed and the error raised; the transaction is
\* committed exactly when the body completed without error.
C24_ConnectRetriedExecuteNot ==
    /\ conn.now.attempt <= Retries
    /\ \A k \in 1..Len(conn.done) :
          LET st == conn.done[k]
          IN /\ Opens(st) <= Retries
             /\ st.slept = RetryDelay * (Opens(st) - 1)
             /\ \A j \in 1..Len(st.failures) :
                   j < Opens(st) => st.failures[j] = LoginTimeout
             /\ ~st.opened =>
                   /\ st.raised = st.failures[Len(st.failures)]
                   /\ st.raised = LoginTimeout => Opens(st) = Retries
                   /\ st.executes = 0
                   /\ ~st.committed /\ ~st.rolled_back /\ ~st.closed
             /\ st.opened =>
                   /\ st.executes >= 1 /\ st.executes <= st.calls
                   /\ st.closed
                   /\ st.raised # NoSqlError => st.rolled_back /\ ~st.committed
                   /\ st.raised = NoSqlError => st.committed /\ ~st.rolled_back
             /\ st.committed =>
                   st.executed /\ st.executes = st.calls /\ st.raised = NoSqlError
             /\ (st.executes >= 1 /\ ~st.executed) => st.raised = ExecuteFailure
             /\ st.raised = ExecuteFailure => ~st.executed

\* One statement was committed on the third attempt after two login
\* timeouts, one gave up on the third login timeout, and one (an
\* insert_and_get_id) failed in its second cursor.execute and was rolled
\* back.
C24_Witness ==
    /\ \E k \in 1..Len(conn.done) :
          /\ Opens(conn.done[k]) = Retries
          /\ conn.done[k].committed
          /\ conn.done[k].slept = 2 * RetryDelay
    /\ \E k \in 1..Len(conn.done) :
          /\ ~conn.done[k].opened
          /\ conn.done[k].failures = <<LoginTimeout, LoginTimeout, LoginTimeout>>
          /\ conn.done[k].raised = LoginTimeout
    /\ \E k \in 1..Len(conn.done) :
          /\ conn.done[k].raised = ExecuteFailure
          /\ conn.done[k].rolled_back
          /\ conn.done[k].closed
          /\ conn.done[k].calls = 2
          /\ conn.done[k].executes = 2

(***************************************************************************)
(* The resources step without resource ids (checked under SpecDiscovery).  *)
(***************************************************************************)
\* C25: with no resource id discovered, the step taken at the resources
\* position is a no-op: no get is started, no slot taken, no bronze row and
\* no Run Record written, nothing raised, and the orchestrator stands at the
\* entry of the extra-services step.
C25_NoResourceIdsIsNoOp ==
    [][(pc = "enter" /\ step = 4 /\ all_resource_ids = <<>>) =>
          /\ pc' = "enter"
          /\ step' = 5
          /\ Entities[step'] = "extra_services"
          /\ raised' = NoExc
          /\ exc' = exc
          /\ tasks' = tasks
          /\ semaphore' = semaphore
          /\ lastGet' = lastGet
          /\ bronze' = bronze
          /\ writes' = writes
          /\ sync_runs' = sync_runs]_vars

\* The products step fetched products none of which gave a resource id, and
\* the extra-services scope has been entered and has fetched, with no
\* resources Run Record and no resources row.
C25_Witness ==
    /\ step = 5
    /\ pc \in {"exit", "returned"}
    /\ all_resource_ids = <<>>
    /\ bronze["products"] # <<>>
    /\ bronze["resources"] = <<>>
    /\ \A id \in DOMAIN sync_runs : sync_runs[id].entity # "resources"
    /\ \E id \in DOMAIN sync_runs : sync_runs[id].entity = "extra_services"
    /\ bronze["extra_services"] # <<>>
    /\ raised = NoExc
    /\ exc = NoExc

(***************************************************************************)
(* The locations scope of bronze_to_silver (checked under SpecSilver).     *)
(***************************************************************************)
\* C26 (as stated): when run() of the locations writer has returned inside
\* bronze_to_silver, the locations Run Record ends success with
\* rows_written = locations upserted + hours rows upserted, nothing is
\* raised, and the invocation stands at the entry of the products scope.
C26_LocationsScopeSucceeds ==
    (SilverScopeDone /\ run.entity = "locations") =>
        /\ sync_runs[run.run_id].status = "success"
        /\ sync_runs[run.run_id].rows_written = result.written + result.hours
        /\ raised = NoExc
        /\ pc = "silver_enter"
        /\ SilverOrder[step] = "products"

(***************************************************************************)
(* SpecRace: two run() calls of the contracts Silver Writer that overlap   *)
(* while the bronze writer replaces the payload of a contract.  The bronze *)
(* writes fall before the later call loads its rows, so the bronze table   *)
(* at the end is the one the later call loaded from.                       *)
(***************************************************************************)
MaxRaceWrites == 1

RaceInit ==
    /\ pc = "overlap"
    /\ step = 1
    /\ uuids = 1
    /\ run_id = NoneVal
    /\ run = NoTracker
    /\ exc = NoExc
    /\ raised = NoExc
    /\ sync_runs = <<>>
    /\ \E src \in SourcePatterns : \E at \in SyncedOrders :
          bronze = [e \in EntityNames |->
                       BronzeInput(src, at, [k \in DOMAIN src |-> "good"])]
    /\ dbClock = 3
    /\ tasks = <<>>
    /\ semaphore = MaxConcurrent
    /\ page = 1
    /\ results = <<>>
    /\ pageLog = <<>>
    /\ lastGet = NewTask
    /\ all_resource_ids = <<>>
    /\ writes = [e \in EntityNames |-> <<>>]
    /\ silver = NoSilver
    /\ result = NoResult
    /\ prevSilver = NoSilver
    /\ history = <<>>
    /\ writers = <<>>
    /\ sync_errors = <<>>
    /\ conn = NoConn

\* BronzeWriter(run_id).write_contracts([record]) for a contract the table
\* holds, with a new payload: the MERGE replaces the payload and synced_at
\* of the latest row of that source id.
BronzeRewrite(source_id) ==
    /\ pc = "overlap"
    /\ Len(writers) < MaxOverlap
    /\ Len(writes["contracts"]) < MaxRaceWrites
    /\ source_id \in SourceIdsIn(bronze["contracts"])
    /\ LET record == Rec(source_id, 10, NoneVal, dbClock + 1, FALSE)
       IN /\ bronze' = [bronze EXCEPT !["contracts"] =
                          BatchUpsert(@, WriterRows("contracts", 0, <<record>>), dbClock)]
          /\ writes' = [writes EXCEPT !["contracts"] = @ \o SourceIds(<<record>>)]
    /\ dbClock' = dbClock + 1
    /\ UNCHANGED <<bronzeVars, sync_runs, clientVars, silverVars>>

RaceNext ==
    \/ OverlapStart("contracts", TRUE)
    \/ \E w \in DOMAIN writers : OverlapStep(w)
    \/ \E w \in DOMAIN writers : OverlapReturn(w)
    \/ \E source_id \in SourceIdsIn(bronze["contracts"]) : BronzeRewrite(source_id)

SpecRace == RaceInit /\ [][RaceNext]_vars

(***************************************************************************)
(* Properties of silver runs that overlap bronze writes (checked under     *)
(* SpecRace).                                                              *)
(***************************************************************************)
\* C27 (as stated): once both run() calls have returned, the silver row of
\* every contract carries the payload of the bronze row that was the latest
\* of its natural id when the later call loaded bronze; the rows loaded
\* earlier by the other call have not overwritten it.
C27_LaterSnapshotWins ==
    (Len(writers) = MaxOverlap /\ \A w \in DOMAIN writers : writers[w].done) =>
        \A sid \in SourceIdsIn(bronze["contracts"]) :
            LET b == LatestRow(bronze["contracts"], sid)
            IN Upserted("contracts", b) =>
                  \A k \in SilverRowsOf("contracts", sid) :
                      /\ silver["contracts"][k].bronze_id = b.id
                      /\ silver["contracts"][k].fields = JsonLoads(b.raw_json).ver

(***************************************************************************)
(* SpecMerge: the writes of BronzeWriter objects to one table, records     *)
(* without an Id included.                                                 *)
(***************************************************************************)
\* The routing keys written: the FloorPlanBusinessId of a product, the
\* location_id a write_resources call is made with.
RoutingKeys == {10, 20}

\* The record lists the run with id v hands to a write_* call for the
\* location loc: the records of WriterInputs and one record whose Id is
\* absent (r.get("Id") is None, the source_id column NULL).
MergeInputs(v, loc) ==
    {<<Rec(1, loc, NoneVal, v, FALSE)>>,
     <<Rec(2, loc, NoneVal, v, FALSE)>>,
     <<Rec(1, loc, NoneVal, v, FALSE), Rec(2, loc, NoneVal, v, FALSE)>>,
     <<Rec(NoneVal, loc, NoneVal, v, FALSE)>>}

MergeNext ==
    \/ NewWriter
    \/ \E loc \in RoutingKeys : \E records \in MergeInputs(run_id, loc) :
          WriteList("products", records)
    \/ \E loc \in RoutingKeys : \E records \in MergeInputs(run_id, loc) :
          WriteResourcesCall(records, loc)

SpecMerge == WriterInit /\ [][MergeNext]_vars

(***************************************************************************)
(* Properties of the MERGE of the bronze writer (checked under SpecMerge). *)
(***************************************************************************)
\* The source ids handed to the writer of e by the step being taken.
JustWritten(e) == SubSeq(writes'[e], Len(writes[e]) + 1, Len(writes'[e]))

\* The index of the row of a non-null source id in a table that holds one.
RowIndex(table, source_id) ==
    CHOOSE k \in 1..Len(table) : table[k].source_id = source_id

\* The row is as a write of the run in progress for source id sid leaves
\* it: the run id, the payload and the routing key of that write.
WrittenRow(row, sid) ==
    /\ row.source_id = sid
    /\ row.sync_run_id = run_id
    /\ \E loc \in RoutingKeys :
          /\ row.raw_json = ToJson(Rec(sid, loc, NoneVal, run_id, FALSE))
          /\ row.location_id = loc

\* C28: from an empty bronze tier, after every write of a BronzeWriter each
\* table holds one row per non-null natural id written and one row per
\* write of a null id; a write for an id that is present leaves the number
\* of rows and the row's identity as they were and sets the row's run id,
\* routing key, payload and synced_at to those of the write; a write for an
\* id not present, or a null id, adds a row that holds them.
C28_OneRowPerWrittenId ==
    [][\A e \in EntityNames :
          LET new == JustWritten(e)
              ids == {new[k] : k \in 1..Len(new)}
          IN /\ \A j, k \in 1..Len(bronze'[e]) :
                   (bronze'[e][j].source_id = bronze'[e][k].source_id
                      /\ bronze'[e][j].source_id # NoneVal) => j = k
             /\ Len(bronze'[e]) =
                   Len(bronze[e])
                   + Cardinality((ids \ {NoneVal}) \ SourceIdsIn(bronze[e]))
                   + Cardinality({k \in 1..Len(new) : new[k] = NoneVal})
             /\ \A sid \in (ids \ {NoneVal}) \cap SourceIdsIn(bronze[e]) :
                   LET k == RowIndex(bronze[e], sid)
                   IN /\ bronze'[e][k].id = bronze[e][k].id
                      /\ WrittenRow(bronze'[e][k], sid)
                      /\ bronze'[e][k].synced_at > bronze[e][k].synced_at
                      /\ bronze'[e][k].synced_at <= dbClock'
             /\ \A k \in (Len(bronze[e]) + 1)..Len(bronze'[e]) :
                   /\ bronze'[e][k].source_id \in ids
                   /\ WrittenRow(bronze'[e][k], bronze'[e][k].source_id)
             /\ \A k \in 1..Len(bronze[e]) :
                   bronze[e][k].source_id \notin ids => bronze'[e][k] = bronze[e][k]]_vars

\* A second run has rewritten, for another location, a source id the first
\* run wrote, and a null id was written: one row for the source id, with
\* the run id, routing key and payload of the second run, and one row for
\* the null id.
C28_Witness ==
    \E e \in EntityNames :
        /\ Len(writes[e]) = 3
        /\ Cardinality({k \in 1..Len(writes[e]) : writes[e][k] = NoneVal}) = 1
        /\ Cardinality({k \in 1..Len(writes[e]) : writes[e][k] = 1}) = 2
        /\ Len(bronze[e]) = 2
        /\ \E k \in 1..Len(bronze[e]) :
              /\ bronze[e][k].source_id = 1
              /\ bronze[e][k].sync_run_id = 2
              /\ bronze[e][k].location_id = 20
              /\ bronze[e][k].raw_json = ToJson(Rec(1, 20, NoneVal, 2, FALSE))
        /\ \E k \in 1..Len(bronze[e]) :
              /\ bronze[e][k].source_id = NoneVal
              /\ bronze[e][k].sync_run_id = 1
              /\ bronze[e][k].location_id = 10

(***************************************************************************)
(* The counters of the bronze Run Records (checked under Spec).            *)
(***************************************************************************)
\* get_one returned a body that is falsy (an empty JSON object).
GetOneEmpty(task) == task.st = "done" /\ task.ok /\ task.body.rec = EmptyRec

\* The fetches of the fan-out that returned 'record absent' / an empty body.
AbsentFetches == {k \in 1..Len(tasks) : GetOneAbsent(tasks[k])}
EmptyFetches == {k \in 1..Len(tasks) : GetOneEmpty(tasks[k])}

\* C29 (as stated): at the exit of a bronze step that ends success, a list
\* entity has rows_written = rows_read = the number of records fetched; the
\* resources step has rows_read = the number of fetches attempted and
\* rows_written + rows_skipped <= rows_read, with equality exactly when no
\* fetch returned 'record absent'.
C29_CountersAsStated ==
    [][(pc = "exit" /\ sync_runs'[run.run_id].status = "success") =>
          LET r == sync_runs'[run.run_id]
          IN IF r.entity # "resources"
             THEN r.rows_read = Len(results) /\ r.rows_written = Len(results)
             ELSE /\ r.rows_read = Len(tasks)
                  /\ r.rows_written + r.rows_skipped <= r.rows_read
                  /\ (r.rows_written + r.rows_skipped = r.rows_read)
                        <=> (AbsentFetches = {})]_vars

\* C29 (amended): as above, with equality exactly when no fetch returned
\* 'record absent' or an empty body: rows_written + rows_skipped is
\* rows_read less the fetches that returned 'record absent' or an empty
\* body, rows_skipped being the fetches that raised.
C29_CountersOfBronzeSteps ==
    [][(pc = "exit" /\ sync_runs'[run.run_id].status = "success") =>
          LET r == sync_runs'[run.run_id]
          IN IF r.entity # "resources"
             THEN r.rows_read = Len(results) /\ r.rows_written = Len(results)
             ELSE /\ r.rows_read = Len(tasks)
                  /\ r.rows_skipped = Cardinality({k \in 1..Len(tasks) : GetOneRaised(tasks[k])})
                  /\ r.rows_written + r.rows_skipped
                        = r.rows_read - Cardinality(AbsentFetches \cup EmptyFetches)
                  /\ r.rows_written + r.rows_skipped <= r.rows_read
                  /\ (r.rows_written + r.rows_skipped = r.rows_read)
                        <=> (AbsentFetches \cup EmptyFetches = {})]_vars

\* A resources step has ended success after one fetch returned a record,
\* one raised and one returned 'record absent', after a products step that
\* wrote as many rows as it fetched.
C29_Witness ==
    /\ pc = "enter"
    /\ step = 5
    /\ run.entity = "resources"
    /\ sync_runs[run.run_id].status = "success"
    /\ sync_runs[run.run_id].rows_read >= 2
    /\ sync_runs[run.run_id].rows_skipped >= 1
    /\ sync_runs[run.run_id].rows_written + sync_runs[run.run_id].rows_skipped
          < sync_runs[run.run_id].rows_read
    /\ \E id \in DOMAIN sync_runs :
          /\ sync_runs[id].entity = "products"
          /\ sync_runs[id].status = "success"
          /\ sync_runs[id].rows_read > 0
          /\ sync_runs[id].rows_written = sync_runs[id].rows_read

(***************************************************************************)
(* Termination of the resource fan-out (checked under SpecFanoutLive).     *)
(***************************************************************************)
\* C30: with every attempt answered, the fan-out completes: gather returns
\* with every fetch ended by a record, 'record absent' or a captured
\* exception (so every call that waited for a slot was admitted) and with
\* all slots of the semaphore free; and the slots are all free whenever the
\* fan-out is over.
C30_FanoutCompletes ==
    /\ (pc = "gather") ~>
          (/\ pc = "exit"
           /\ Len(tasks) = Len(all_resource_ids)
           /\ \A k \in 1..Len(tasks) :
                 /\ tasks[k].st = "done"
                 /\ tasks[k].ok \/ GetOneAbsent(tasks[k]) \/ GetOneRaised(tasks[k])
           /\ semaphore = MaxConcurrent)
    /\ [](pc # "gather" => semaphore = MaxConcurrent)

\* A fan-out over more resource ids than slots has completed: the upstream
\* failed every attempt of one fetch, which get gave up after
\* stop_after_attempt attempts and gather captured; others returned a
\* record, and all slots are free.
C30_Witness ==
    /\ pc = "exit"
    /\ Len(tasks) > MaxConcurrent
    /\ \A k \in 1..Len(tasks) : tasks[k].st = "done"
    /\ \E k \in 1..Len(tasks) :
          /\ GetOneRaised(tasks[k])
          /\ tasks[k].exc.type = "RetryError"
          /\ tasks[k].attempt = StopAfterAttempt
    /\ \E k \in 1..Len(tasks) : tasks[k].ok
    /\ semaphore = MaxConcurrent

====
